---- MODULE Spec2Model ----
(***************************************************************************)
(* Virta: the DAG leveler (buildLevels), the pipeline runner (runPipeline, *)
(* runLevel), the runtime monitor with its timeout hooks, and the runner   *)
(* package's adapters and fallback chain.                                  *)
(***************************************************************************)
EXTENDS Integers, Sequences, FiniteSets, TLC

(* ------------------------------ bounds -------------------------------- *)
\* longest definition.steps array explored
MaxSteps == 3
\* a monitor's elapsed wall time is followed up to this many milliseconds
MaxElapsed == 1000

\* the step classes that exist in the program (StepCtor identities)
Ctors == {1, 2, 3}

(* --------------------------- program constants ------------------------ *)
\* TimeoutHooks.ts: "Less than 100ms is effectively a timeout"
ExhaustedThresholdMs == 100
\* RuntimeMonitor.ts: thresholdPercent ?? 80
DefaultThresholdPercent == 80

(* ------------------------------ helpers ------------------------------- *)
Range(s) == {s[i] : i \in 1..Len(s)}

(* --------------------- core/src/index.ts: the types ------------------- *)
\* RegisteredStep: ctor and dependsOn (dependsOn ?? [] ; only membership of
\* the array is ever used, so it is modelled as a set)
RegisteredStep == [ctor : Ctors, dependsOn : SUBSET Ctors]

\* Constructors are opaque identities, so every definition is a renaming of
\* one that names its constructors in order of first appearance: entry i
\* holds a ctor used before it or the smallest unused one.
FirstAppearanceOrder(steps) ==
    \A i \in 1..Len(steps) :
        \/ steps[i].ctor = 1
        \/ \E j \in 1..(i - 1) : steps[j].ctor + 1 >= steps[i].ctor

\* PipelineDefinition.steps: every array of at most MaxSteps registered
\* steps, repeated ctors, unregistered and cyclic dependencies included
Definitions ==
    {steps \in UNION {[1..n -> RegisteredStep] : n \in 0..MaxSteps} :
        FirstAppearanceOrder(steps)}

(* ------------------- core/src/index.ts: buildLevels ------------------- *)
\* lines 75-82: the seenCtors pass throws on the first repeated ctor
HasDuplicateCtor(steps) ==
    \E i, j \in 1..Len(steps) : i < j /\ steps[i].ctor = steps[j].ctor

\* line 80: seenCtors after the pass
SeenCtors(steps) == {steps[i].ctor : i \in 1..Len(steps)}

\* lines 92-98: some entry still in `remaining` names an unregistered dependency
HasUnregisteredDependency(steps, resolved) ==
    \E i \in 1..Len(steps) :
        /\ steps[i].ctor \notin resolved
        /\ \E d \in steps[i].dependsOn : d \notin SeenCtors(steps)

\* line 99, mutated: a step is ready as soon as one dependency is resolved
IsSatisfiedAny(step, resolved) ==
    step.dependsOn = {} \/ step.dependsOn \cap resolved # {}

\* line 99: dependencies.every(d => resolved.has(d))
IsSatisfied(step, resolved) == step.dependsOn \subseteq resolved

\* lines 100-102 and 109-112, mutated: the ready entries are not deleted from
\* `remaining`, so a later wave holds them again
RECURSIVE ReadyWaveKeepsResolved(_, _)
ReadyWaveKeepsResolved(steps, resolved) ==
    IF steps = <<>> THEN <<>>
    ELSE LET s == Head(steps)
             rest == ReadyWaveKeepsResolved(Tail(steps), resolved)
         IN IF IsSatisfied(s, resolved) THEN <<s.ctor>> \o rest ELSE rest

\* lines 92-103, mutated: the scan of `remaining` stops at the first ready
\* entry
RECURSIVE ReadyWaveFirstOnly(_, _)
ReadyWaveFirstOnly(steps, resolved) ==
    IF steps = <<>> THEN <<>>
    ELSE LET s == Head(steps)
         IN IF s.ctor \notin resolved /\ IsSatisfied(s, resolved)
            THEN <<s.ctor>>
            ELSE ReadyWaveFirstOnly(Tail(steps), resolved)

\* lines 90-103: the ready wave, in insertion order of the remaining entries
RECURSIVE ReadyWave(_, _)
ReadyWave(steps, resolved) ==
    IF steps = <<>> THEN <<>>
    ELSE LET s == Head(steps)
             rest == ReadyWave(Tail(steps), resolved)
         IN IF s.ctor \notin resolved /\ IsSatisfied(s, resolved)
            THEN <<s.ctor>> \o rest
            ELSE rest

\* lines 89-115: the while loop over `remaining`
RECURSIVE BuildWaves(_, _, _)
BuildWaves(steps, resolved, levels) ==
    IF SeenCtors(steps) \subseteq resolved
    THEN [error |-> "none", levels |-> levels]
    ELSE IF HasUnregisteredDependency(steps, resolved)
    THEN [error |-> "Step dependency not registered", levels |-> <<>>]
    ELSE LET ready == ReadyWave(steps, resolved)
         IN IF ready = <<>>
            THEN [error |-> "Cyclic or unsatisfied dependencies detected",
                  levels |-> <<>>]
            ELSE BuildWaves(steps, resolved \cup Range(ready),
                            Append(levels, ready))

\* lines 73-82, mutated: the duplicate check is skipped
buildLevelsNoDuplicateCheck(steps) == BuildWaves(steps, {}, <<>>)

\* lines 73-118: the outcome of buildLevels(definition): the error thrown
\* ("none" for a normal return) and the levels returned
buildLevels(steps) ==
    IF HasDuplicateCtor(steps)
    THEN [error |-> "Duplicate step constructor registered", levels |-> <<>>]
    ELSE BuildWaves(steps, {}, <<>>)

(* ------------------------------ inputs -------------------------------- *)
\* runner/src/index.ts: the execution modes followed (options.executionMode);
\* "lambda-fallback" behaves as "auto". options.hooks is left undefined, so
\* the only hooks a run has are the timeout hooks of the lambda adapter.
Modes == {"in-memory", "lambda", "hybrid", "fargate", "auto"}

\* options.timeoutMs of the run, in milliseconds
TimeoutChoices == {1000}

\* the clock advances in steps of this many milliseconds
TickDeltas == {100, 800}

\* the readings of Date.now() - startTime that are followed: the start, the
\* warning threshold of a 1000 ms budget, the reading that leaves exactly
\* the 100 ms of TimeoutHooks.ts, and the budget itself
ClockReadings == {0, 800, 900, 1000}

\* what one call of step.execute(ctx) does: return, set ctx.stopPipeline and
\* return, throw, or set ctx.stopPipeline and throw
StepOutcomes == {"ok", "stop", "raise", "stopraise"}

(* ------------------------------- state -------------------------------- *)
VARIABLES
    definition,      \* the PipelineDefinition handed to run()
    executionMode,   \* options.executionMode
    isFargate,       \* AWS_EXECUTION_ENV includes "AWS_ECS_FARGATE": "yes" or
                     \* "no" once fargate.ts has read it, "unread" before
    timeoutMs,       \* options.timeoutMs
    stack,           \* the pending async calls, innermost last
    ret,             \* the value or error the innermost call just settled with
    attempts,        \* adapters the fallback chain has invoked, in order
    runDef,          \* the definition argument of the adapter/runPipeline call
    hooksOn,         \* runPipeline was given createTimeoutHooks(monitor)
    pc,              \* position inside runPipeline / runLevel
    levels,          \* runPipeline: levels
    levelIdx,        \* index of the level the for loop is at
    launchIdx,       \* index inside level.map
    stepState,       \* per ctor: state of its async callback in level.map
    ctx,             \* TransformationContext: stopPipeline, error
    executedSteps,   \* runPipeline: executedSteps
    errors,          \* runPipeline: errors (the step of each entry)
    completedLevels, \* runPipeline: completedLevels
    elapsed,         \* Date.now() - monitor.startTime
    warningEmitted,  \* RuntimeMonitor.warningEmitted
    cleanStop,       \* history: a step set stopPipeline when none had raised
    stoppers,        \* history: ctors whose execute set ctx.stopPipeline
    raised,          \* history: ctors whose execute threw in this run
    hookThrew,       \* history: a timeout hook threw during this run
    prefixResult,    \* hybrid.ts: prefixResult, once the prefix has returned
    suffixSource,    \* options.source the step-functions adapter was given
    target,          \* options.target: the ctors whose execute wrote into it
    warnings,        \* RuntimeMonitor: times check() ran the warning branch
    lastCheckAt,     \* history: elapsed at the last call of check(), -1 if none
    planDef,         \* planner: def, the registry PipelineDefinition
    metaByNodeId,    \* planner: metaByNodeId
    cpPc,            \* position inside computeCriticalPath
    longestPath,     \* computeCriticalPath: the longestPath map
    longestPathKeys, \* the keys of longestPath in insertion order
    processed,       \* computeCriticalPath: processed
    queue,           \* computeCriticalPath: queue
    criticalPath,    \* what computeCriticalPath returned or threw
    config,          \* planExecution: the PlannerConfig argument
    executionHint,   \* planExecution: metaByNodeId[id]?.executionHint
    plan,            \* what planExecution returned or threw
    registry,        \* StepRegistry.map: the entries in insertion order
    converted,       \* a conversion's input and the values returned from it
    calls            \* history: the hook calls of a run of runPipeline, or
                     \* the method calls made on the registry, in order

vars == <<definition, executionMode, isFargate, timeoutMs, stack, ret,
          attempts, runDef, hooksOn, pc, levels, levelIdx, launchIdx,
          stepState, ctx, executedSteps, errors, completedLevels, elapsed,
          warningEmitted, cleanStop, stoppers, raised, hookThrew,
          prefixResult, suffixSource, target, warnings, lastCheckAt,
          planDef, metaByNodeId, cpPc, longestPath, longestPathKeys,
          processed, queue, criticalPath, config, executionHint, plan,
          registry, converted, calls>>

inputVars == <<definition, executionMode, isFargate, timeoutMs>>
runVars == <<levels, levelIdx, launchIdx, stepState, ctx, executedSteps,
             errors, completedLevels, cleanStop, stoppers, raised, hookThrew>>
monitorVars == <<elapsed, warningEmitted, warnings, lastCheckAt>>
hybridVars == <<prefixResult, suffixSource>>
converterVars == <<registry, converted, calls>>
planVars == <<config, executionHint, plan, converterVars>>
plannerVars == <<planDef, metaByNodeId, cpPc, longestPath, longestPathKeys,
                 processed, queue, criticalPath, planVars>>
outerVars == <<inputVars, hybridVars, target, plannerVars>>

(* --------------------------- call frames ------------------------------ *)
Top == IF stack = <<>> THEN "none" ELSE stack[Len(stack)]
Pop == SubSeq(stack, 1, Len(stack) - 1)
ReplaceTop(f) == Append(Pop, f)

\* RunnerOptions handed to run(): source and target name the two objects
Options == [source |-> "source", target |-> "target"]

\* the context of a settled call that carries no result
NoContext == [source |-> "none", target |-> "none"]

NoRet == [kind |-> "none", status |-> "none", context |-> NoContext,
          errors |-> <<>>, executedSteps |-> <<>>, completedLevels |-> <<>>,
          error |-> "none"]

\* PipelineResult: status, context (its source and target), errors,
\* executedSteps, completedLevels
ResultRet(st, c, errs, exec, done) ==
    [kind |-> "result", status |-> st,
     context |-> [source |-> c.source, target |-> c.target],
     errors |-> errs, executedSteps |-> exec, completedLevels |-> done,
     error |-> "none"]

ErrorRet(e) ==
    [kind |-> "error", status |-> "none", context |-> NoContext,
     errors |-> <<>>, executedSteps |-> <<>>, completedLevels |-> <<>>,
     error |-> e]

\* step-functions.ts 20-26, fargate.ts 23-29: the mocked successful result,
\* context: { source: options.source, target: options.target }
MockResult(opts) == ResultRet("success", opts, <<>>, <<>>, <<>>)

IdleSteps == [c \in Ctors |-> "idle"]
\* line 170: ctx = { source, target }; stopPipeline is undefined (falsy) and
\* ctx.error holds the ctor whose error was stored last, 0 while undefined
FreshCtx == [source |-> Options.source, target |-> Options.target,
             stopPipeline |-> FALSE, error |-> 0]

\* the registry PipelineDefinition of no nodes, the state of the planner
\* while it is not called
NoPlanDef == [nodes |-> <<>>, hasEntryNodes |-> FALSE, entryNodes |-> <<>>]
NoPath == [set |-> FALSE, path |-> <<>>, optimisticMs |-> 0,
           pessimisticMs |-> 0]
NoCriticalPath == [kind |-> "none", nodeIds |-> <<>>, optimisticMs |-> 0,
                   pessimisticMs |-> 0, error |-> "none"]
NoConfig == [lambdaMaxMs |-> 0, hasSafetyMargin |-> FALSE,
             safetyMarginPct |-> 0]
NoPlan == [kind |-> "none", mode |-> "none", lambdaNodes |-> <<>>,
           stepFunctionsNodes |-> <<>>, error |-> "none"]

PlannerIdle ==
    /\ planDef = NoPlanDef
    /\ metaByNodeId = <<>>
    /\ cpPc = "idle"
    /\ longestPath = <<>>
    /\ longestPathKeys = <<>>
    /\ processed = {}
    /\ queue = <<>>
    /\ criticalPath = NoCriticalPath
    /\ config = NoConfig
    /\ executionHint = <<>>
    /\ plan = NoPlan
    /\ registry = <<>>
    /\ calls = <<>>
    /\ converted = <<>>

Init ==
    /\ PlannerIdle
    /\ definition \in Definitions
    /\ executionMode \in Modes
    /\ isFargate = "unread"
    /\ timeoutMs \in TimeoutChoices
    /\ stack = <<"runner.call">>
    /\ ret = NoRet
    /\ attempts = <<>>
    /\ runDef = definition
    /\ hooksOn = FALSE
    /\ pc = "idle"
    /\ levels = <<>>
    /\ levelIdx = 0
    /\ launchIdx = 0
    /\ stepState = IdleSteps
    /\ ctx = FreshCtx
    /\ executedSteps = <<>>
    /\ errors = <<>>
    /\ completedLevels = <<>>
    /\ elapsed = 0
    /\ warningEmitted = FALSE
    /\ cleanStop = FALSE
    /\ raised = {}
    /\ stoppers = {}
    /\ hookThrew = FALSE
    /\ prefixResult = NoRet
    /\ suffixSource = "none"
    /\ target = {}
    /\ warnings = 0
    /\ lastCheckAt = -1

(* ------------------ core/src/RuntimeMonitor.ts ------------------------ *)
\* constructor: timeoutMs * (threshold / 100), compared in hundredths
WarningReached(e) == e * 100 >= timeoutMs * DefaultThresholdPercent

\* line 26, mutated: the warningEmitted flag is not looked at
CheckFiresEveryTime == WarningReached(elapsed)

\* line 26: !this.warningEmitted && elapsed >= this.warningThresholdMs
CheckFires == ~warningEmitted /\ WarningReached(elapsed)

\* check(): the new value of warningEmitted
CheckWarning == warningEmitted \/ CheckFires

\* check(), lines 24-34: above the threshold the flag is set and the
\* onWarning callback, if one is registered, is called, once
MonitorCheck ==
    /\ warningEmitted' = CheckWarning
    /\ warnings' = IF CheckFires THEN warnings + 1 ELSE warnings
    /\ lastCheckAt' = elapsed

\* TimeoutHooks.ts lines 12 and 26: the timeout hooks start with
\* monitor.check(); a run without a monitor has no such hooks
HookChecksMonitor ==
    IF hooksOn THEN MonitorCheck
    ELSE UNCHANGED <<warningEmitted, warnings, lastCheckAt>>

\* getRemainingTime(): Math.max(0, timeoutMs - elapsed)
RemainingTime == IF timeoutMs - elapsed > 0 THEN timeoutMs - elapsed ELSE 0

(* ------------------- core/src/TimeoutHooks.ts ------------------------- *)
\* lines 17 and 27, mutated: < in place of <=
HookThrowsStrict == hooksOn /\ RemainingTime < ExhaustedThresholdMs

\* lines 17 and 27: remaining time at or below the threshold, the hook throws
HookThrows == hooksOn /\ RemainingTime <= ExhaustedThresholdMs

\* lines 18 and 28, mutated: a plain Error is thrown
HookErrorGeneric == "Error"

\* lines 18 and 28: throw new LambdaTimeoutError()
HookError == "LambdaTimeoutError"

(* ---------------- core/src/index.ts: runPipeline ---------------------- *)
RunActive == Top \in {"lambda.run", "inmemory.run", "fargate.run"}

CurrentLevel == levels[levelIdx]

\* lines 169-175, mutated: the error of buildLevels is caught and turned into
\* a result with status error
RunPipelineStartCatching ==
    /\ RunActive /\ pc = "start"
    /\ LET built == buildLevels(runDef)
       IN /\ levels' = built.levels
          /\ IF built.error # "none"
             THEN /\ pc' = "done"
                  /\ ret' = ResultRet("error", FreshCtx, <<>>, <<>>, <<>>)
                  /\ levelIdx' = 0
             ELSE /\ ret' = NoRet
                  /\ IF built.levels = <<>>
                     THEN pc' = "finish" /\ levelIdx' = 0
                     ELSE pc' = "levelStart" /\ levelIdx' = 1
    /\ launchIdx' = 0
    /\ stepState' = IdleSteps
    /\ ctx' = FreshCtx
    /\ executedSteps' = <<>>
    /\ errors' = <<>>
    /\ completedLevels' = <<>>
    /\ cleanStop' = FALSE
    /\ raised' = {}
    /\ stoppers' = {}
    /\ hookThrew' = FALSE
    /\ UNCHANGED <<outerVars, stack, attempts, runDef, hooksOn, monitorVars>>

\* lines 169-175: fresh context and arrays, then buildLevels(definition),
\* whose error is not caught
RunPipelineStart ==
    /\ RunActive /\ pc = "start"
    /\ LET built == buildLevels(runDef)
       IN /\ levels' = built.levels
          /\ IF built.error # "none"
             THEN /\ pc' = "threw"
                  /\ ret' = ErrorRet(built.error)
                  /\ levelIdx' = 0
             ELSE /\ ret' = NoRet
                  /\ IF built.levels = <<>>
                     THEN pc' = "finish" /\ levelIdx' = 0
                     ELSE pc' = "levelStart" /\ levelIdx' = 1
    /\ launchIdx' = 0
    /\ stepState' = IdleSteps
    /\ ctx' = FreshCtx
    /\ executedSteps' = <<>>
    /\ errors' = <<>>
    /\ completedLevels' = <<>>
    /\ cleanStop' = FALSE
    /\ raised' = {}
    /\ stoppers' = {}
    /\ hookThrew' = FALSE
    /\ UNCHANGED <<outerVars, stack, attempts, runDef, hooksOn, monitorVars>>

\* runLevel line 133 with TimeoutHooks.ts 25-33: await hooks.onLevelStart
OnLevelStart ==
    /\ RunActive /\ pc = "levelStart"
    /\ HookChecksMonitor
    /\ IF HookThrows
       THEN pc' = "threw" /\ ret' = ErrorRet(HookError)
            /\ launchIdx' = 0
       ELSE pc' = "launch" /\ launchIdx' = 1 /\ ret' = ret
    /\ hookThrew' = (hookThrew \/ HookThrows)
    /\ UNCHANGED <<outerVars, stack, attempts, runDef, hooksOn, levels,
                   levelIdx, stepState, ctx, executedSteps, errors,
                   completedLevels, cleanStop, stoppers, raised, elapsed>>

\* runLevel lines 135-137 with TimeoutHooks.ts 11-24: the synchronous part of
\* one callback of level.map: new ctor(), then hooks.onStepStart
StepStart ==
    /\ RunActive /\ pc = "launch"
    /\ LET ctor == CurrentLevel[launchIdx]
       IN stepState' = [stepState EXCEPT
                          ![ctor] = IF HookThrows THEN "hookThrew"
                                    ELSE "started"]
    /\ HookChecksMonitor
    /\ IF launchIdx = Len(CurrentLevel)
       THEN pc' = "await" /\ launchIdx' = launchIdx
       ELSE pc' = pc /\ launchIdx' = launchIdx + 1
    /\ hookThrew' = (hookThrew \/ HookThrows)
    /\ UNCHANGED <<outerVars, stack, ret, attempts, runDef, hooksOn, levels,
                   levelIdx, ctx, executedSteps, errors, completedLevels,
                   cleanStop, stoppers, raised, elapsed>>

\* a callback of level.map keeps running while Promise.all is pending, and
\* also after Promise.all has rejected, until the adapter's promise settles
CallbacksRun == RunActive /\ pc \in {"await", "threw"}

\* line 140, mutated: execute is given a copy of the context, so that what
\* it writes stays private
TargetAfterPrivate(ctor) == target

\* line 140: execute is given ctx itself, whose target is the object of
\* options.target; a step records itself in it (as the steps of
\* pipeline.test.ts do) in the synchronous part of execute
TargetAfter(ctor) == target \cup {ctor}

\* runLevel line 140: step.execute(ctx) is entered; the step reads what
\* ctx.target holds at this point and then writes to it
ExecBegin(ctor) ==
    /\ CallbacksRun
    /\ stepState[ctor] = "started"
    /\ stepState' = [stepState EXCEPT ![ctor] = "running"]
    /\ target' = TargetAfter(ctor)
    /\ UNCHANGED <<inputVars, hybridVars, plannerVars, stack, ret, attempts,
                   runDef, hooksOn, pc,
                   levels, levelIdx, launchIdx, ctx, executedSteps, errors,
                   completedLevels, cleanStop, stoppers, raised, hookThrew,
                   monitorVars>>

\* runLevel lines 140-149, mutated: no try/catch, the error of execute
\* rejects the callback's promise
ExecEndUncaught(ctor, outcome) ==
    /\ CallbacksRun
    /\ stepState[ctor] = "running"
    /\ LET stops == outcome \in {"stop", "stopraise"}
           throws == outcome \in {"raise", "stopraise"}
       IN /\ ctx' = [ctx EXCEPT !.stopPipeline = ctx.stopPipeline \/ stops]
          /\ cleanStop' = (cleanStop \/ (stops /\ raised = {}))
          /\ stoppers' = IF stops THEN stoppers \cup {ctor} ELSE stoppers
          /\ raised' = IF throws THEN raised \cup {ctor} ELSE raised
          /\ executedSteps' = IF throws THEN executedSteps
                              ELSE Append(executedSteps, ctor)
          /\ stepState' = [stepState EXCEPT
                             ![ctor] = IF throws THEN "execThrew"
                                       ELSE "fulfilled"]
    /\ UNCHANGED <<outerVars, stack, ret, attempts, runDef, hooksOn, pc,
                   levels, levelIdx, launchIdx, errors, completedLevels,
                   hookThrew, monitorVars>>

\* line 141, mutated: the push is not skipped when execute throws
ExecutedAfterAlways(ctor, throws) == Append(executedSteps, ctor)

\* line 141: executedSteps.push(ctor), reached only when execute returned
ExecutedAfter(ctor, throws) ==
    IF throws THEN executedSteps ELSE Append(executedSteps, ctor)

\* runLevel lines 140-149: step.execute(ctx) settles; the try/catch records
\* the step in executedSteps or in errors and the callback returns
ExecEnd(ctor, outcome) ==
    /\ CallbacksRun
    /\ stepState[ctor] = "running"
    /\ LET stops == outcome \in {"stop", "stopraise"}
           throws == outcome \in {"raise", "stopraise"}
       IN /\ ctx' = [ctx EXCEPT
                       !.stopPipeline = ctx.stopPipeline \/ stops,
                       !.error = IF throws THEN ctor ELSE ctx.error]
          /\ cleanStop' = (cleanStop \/ (stops /\ raised = {}))
          /\ stoppers' = IF stops THEN stoppers \cup {ctor} ELSE stoppers
          /\ raised' = IF throws THEN raised \cup {ctor} ELSE raised
          /\ executedSteps' = ExecutedAfter(ctor, throws)
          /\ errors' = IF throws THEN Append(errors, ctor) ELSE errors
          /\ stepState' = [stepState EXCEPT
                             ![ctor] = IF throws THEN "rejected"
                                       ELSE "fulfilled"]
    /\ UNCHANGED <<outerVars, stack, ret, attempts, runDef, hooksOn, pc,
                   levels, levelIdx, launchIdx, completedLevels, hookThrew,
                   monitorVars>>

\* line 152, mutated: the level is left as soon as one callback has failed
LevelSettledFailFast ==
    \/ \A i \in 1..Len(CurrentLevel) :
          stepState[CurrentLevel[i]] \in {"fulfilled", "rejected"}
    \/ \E i \in 1..Len(CurrentLevel) : stepState[CurrentLevel[i]] = "rejected"

\* line 152, mutated: the level is left as soon as one callback has settled
LevelSettledAny ==
    \E i \in 1..Len(CurrentLevel) :
        stepState[CurrentLevel[i]] \in {"fulfilled", "rejected"}

\* line 152, mutated: the callbacks are not awaited, the level is left once
\* level.map has started them
LevelSettledOnceStarted ==
    \A i \in 1..Len(CurrentLevel) : stepState[CurrentLevel[i]] # "idle"

\* line 152, mutated: the promise of Promise.all never fulfils
LevelSettledNever == FALSE

\* line 152: Promise.all fulfils when every callback has returned
LevelSettled ==
    \A i \in 1..Len(CurrentLevel) :
        stepState[CurrentLevel[i]] \in {"fulfilled", "rejected"}

\* line 152: Promise.all rejects with the error of a callback whose promise
\* rejected (a throwing onStepStart; execute's own errors are caught);
\* nothing in runLevel or runPipeline catches it
AwaitAllRejects ==
    /\ RunActive /\ pc = "await"
    /\ \E i \in 1..Len(CurrentLevel) :
          /\ stepState[CurrentLevel[i]] \in {"hookThrew", "execThrew"}
          /\ ret' = ErrorRet(IF stepState[CurrentLevel[i]] = "hookThrew"
                             THEN HookError ELSE "StepError")
    /\ pc' = "threw"
    /\ UNCHANGED <<outerVars, stack, attempts, runDef, hooksOn, runVars,
                   monitorVars>>

\* line 153: results.some(r => r.status === "rejected")
HasError ==
    \E i \in 1..Len(CurrentLevel) : stepState[CurrentLevel[i]] = "rejected"

\* line 181, mutated: a stop request wins over a failure of the same level
BreaksOnStopOnly == ctx.stopPipeline

\* line 181: hasError || ctx.stopPipeline
Breaks == HasError \/ ctx.stopPipeline

\* lines 179-183, mutated: the level is pushed after the break test
CompletedAfterUnlessBreak ==
    IF HasError \/ ctx.stopPipeline THEN completedLevels
    ELSE Append(completedLevels, CurrentLevel)

\* line 179: completedLevels.push(level), before the break test
CompletedAfter == Append(completedLevels, CurrentLevel)

\* runLevel lines 152-156 and runPipeline lines 178-184: the level is fully
\* awaited, pushed to completedLevels, and the loop breaks or advances
AwaitAllResolves ==
    /\ RunActive /\ pc = "await"
    /\ LevelSettled
    /\ completedLevels' = CompletedAfter
    /\ IF Breaks \/ levelIdx = Len(levels)
       THEN pc' = "finish" /\ levelIdx' = levelIdx
       ELSE pc' = "levelStart" /\ levelIdx' = levelIdx + 1
    /\ UNCHANGED <<outerVars, stack, ret, attempts, runDef, hooksOn, levels,
                   launchIdx, stepState, ctx, executedSteps, errors,
                   cleanStop, stoppers, raised, hookThrew, monitorVars>>

\* line 186, mutated: the stop flag is not looked at
StatusIgnoresStop == IF Len(errors) > 0 THEN "error" ELSE "success"

\* line 186, mutated: the stop flag is looked at before the errors
StatusStopFirst ==
    IF ctx.stopPipeline THEN "stopped"
    ELSE IF Len(errors) > 0 THEN "error" ELSE "success"

\* line 186: the status of the result
Status ==
    IF Len(errors) > 0 THEN "error"
    ELSE IF ctx.stopPipeline THEN "stopped" ELSE "success"

\* lines 186-196: the result is built and returned
Finish ==
    /\ RunActive /\ pc = "finish"
    /\ pc' = "done"
    /\ ret' = ResultRet(Status, ctx, errors, executedSteps, completedLevels)
    /\ UNCHANGED <<outerVars, stack, attempts, runDef, hooksOn, runVars,
                   monitorVars>>

\* wall time passes while a monitored run is in progress: before a level
\* starts, between the callbacks of level.map, and while the steps execute
\* (time that passes elsewhere is seen by no hook before it passes here too)
Tick(d) ==
    /\ RunActive /\ hooksOn
    /\ pc \in {"levelStart", "launch", "await"}
    /\ elapsed + d <= MaxElapsed
    /\ elapsed + d \in ClockReadings
    /\ elapsed' = elapsed + d
    /\ UNCHANGED <<outerVars, stack, ret, attempts, runDef, hooksOn, pc,
                   runVars, warningEmitted, warnings, lastCheckAt>>

(* --------------------- runner/src/adapters ---------------------------- *)
\* in-memory adapter (part_016 lines 71-75): runPipeline(definition, options)
InMemoryAdapterRun ==
    /\ Top = "inmemory.call"
    /\ stack' = ReplaceTop("inmemory.run")
    /\ hooksOn' = FALSE
    /\ pc' = "start"
    /\ UNCHANGED <<outerVars, ret, attempts, runDef, runVars, monitorVars>>

\* lambda.ts lines 6-15: a new RuntimeMonitor, createTimeoutHooks, runPipeline
LambdaAdapterRun ==
    /\ Top = "lambda.call"
    /\ stack' = ReplaceTop("lambda.run")
    /\ hooksOn' = TRUE
    /\ elapsed' = 0
    /\ warningEmitted' = FALSE
    /\ warnings' = 0
    /\ lastCheckAt' = -1
    /\ pc' = "start"
    /\ UNCHANGED <<outerVars, ret, attempts, runDef, runVars>>

\* fargate.ts lines 6-31: the environment is read; inside Fargate the
\* definition is run by runPipeline, outside the launch is mocked
FargateAdapterRun ==
    /\ Top = "fargate.call"
    /\ \E env \in {"yes", "no"} :
          /\ isFargate' = env
          /\ IF env = "yes"
             THEN stack' = ReplaceTop("fargate.run") /\ pc' = "start"
                  /\ ret' = ret
             ELSE stack' = Pop /\ pc' = pc /\ ret' = MockResult(Options)
    /\ hooksOn' = FALSE
    /\ UNCHANGED <<definition, executionMode, timeoutMs, hybridVars,
                   target, plannerVars, attempts, runDef, runVars,
                   monitorVars>>

\* the promise returned by an adapter that ends in `return runPipeline(...)`
\* settles as runPipeline's promise does
AdapterSettles ==
    /\ RunActive /\ pc \in {"done", "threw"}
    /\ stack' = Pop
    /\ pc' = "idle"
    /\ UNCHANGED <<outerVars, ret, attempts, runDef, hooksOn, runVars,
                   monitorVars>>

\* pipeline-splitter (part_017 lines 9-30): null below two steps, otherwise
\* the cut index floor(length / 2)
SplitIndex(steps) == Len(steps) \div 2
CanSplit(steps) == Len(steps) >= 2
PrefixOf(steps) == SubSeq(steps, 1, SplitIndex(steps))
SuffixOf(steps) == SubSeq(steps, SplitIndex(steps) + 1, Len(steps))

\* hybrid.ts lines 15-26: split, then the whole definition or the prefix is
\* run by the hybrid adapter's own lambda adapter
HybridAdapterRun ==
    /\ Top = "hybrid.call"
    /\ IF CanSplit(runDef)
       THEN /\ stack' = Append(ReplaceTop("hybrid.prefix"), "lambda.call")
            /\ runDef' = PrefixOf(runDef)
       ELSE /\ stack' = Append(ReplaceTop("hybrid.whole"), "lambda.call")
            /\ runDef' = runDef
    /\ prefixResult' = NoRet
    /\ suffixSource' = "none"
    /\ UNCHANGED <<inputVars, target, plannerVars, ret, attempts, hooksOn,
                   pc, runVars, monitorVars>>

\* hybrid.ts line 22: `return this.lambdaAdapter.run(definition, options)`
HybridWholeSettles ==
    /\ Top = "hybrid.whole" /\ ret.kind # "none"
    /\ stack' = Pop
    /\ UNCHANGED <<outerVars, ret, attempts, runDef, hooksOn, pc,
                   runVars, monitorVars>>

\* hybrid.ts line 28, mutated: the suffix is run whatever the prefix's status
PrefixSucceededAlways(r) == TRUE

\* hybrid.ts line 28: prefixResult.status !== "success" returns the prefix
PrefixSucceeded(r) == r.status = "success"

\* hybrid.ts lines 34-37: { ...options, source: prefixResult.context.target }
SuffixOptions(r) == [Options EXCEPT !.source = r.context.target]

\* hybrid.ts lines 26-39: after the prefix; an error thrown by the lambda
\* adapter propagates, a result other than success is returned as it is, and
\* otherwise the step-functions adapter is called with the suffix and with
\* the prefix result's target as its source
HybridPrefixSettles ==
    /\ Top = "hybrid.prefix" /\ ret.kind # "none"
    /\ IF ret.kind = "error"
       THEN /\ stack' = Pop
            /\ UNCHANGED <<ret, runDef, hybridVars>>
       ELSE /\ prefixResult' = ret
            /\ IF PrefixSucceeded(ret)
               THEN /\ stack' = Append(ReplaceTop("hybrid.suffix"), "sfn.call")
                    /\ suffixSource' = SuffixOptions(ret).source
                    /\ runDef' = SuffixOf(definition)
                    /\ ret' = NoRet
               ELSE /\ stack' = Pop
                    /\ UNCHANGED <<ret, runDef, suffixSource>>
    /\ UNCHANGED <<inputVars, target, plannerVars, attempts, hooksOn, pc,
                   runVars, monitorVars>>

\* step-functions adapter (part_016 lines 42-64): the execution is mocked, a
\* successful result is returned and no step of the suffix is run
StepFunctionsAdapterRun ==
    /\ Top = "sfn.call"
    /\ stack' = Pop
    /\ ret' = MockResult([Options EXCEPT !.source = suffixSource])
    /\ UNCHANGED <<outerVars, attempts, runDef, hooksOn, pc,
                   runVars, monitorVars>>

\* hybrid.ts lines 39-46: the suffix result with the executed steps and the
\* completed levels of both parts concatenated; an error of the
\* step-functions adapter propagates
HybridSuffixSettles ==
    /\ Top = "hybrid.suffix" /\ ret.kind # "none"
    /\ stack' = Pop
    /\ ret' = IF ret.kind = "error" THEN ret
              ELSE [ret EXCEPT
                      !.executedSteps = prefixResult.executedSteps \o @,
                      !.completedLevels = prefixResult.completedLevels \o @]
    /\ UNCHANGED <<outerVars, attempts, runDef, hooksOn, pc,
                   runVars, monitorVars>>

(* --------------- runner: fallback chain (part_016 8-34) --------------- *)
\* line 20, mutated: every error of the lambda adapter triggers the fallback
FallsBackOnAnyError(e) == TRUE

\* line 20: error instanceof LambdaTimeoutError
FallsBackOn(e) == e = HookError

\* history: an adapter the chain invoked and the error it threw ("pending"
\* while it runs, "none" when it returned a result)
Attempt(mode) == [mode |-> mode, error |-> "pending"]

\* history: the running attempt settles with ret
AttemptSettled ==
    [attempts EXCEPT ![Len(attempts)].error =
        IF ret.kind = "error" THEN ret.error ELSE "none"]

\* lines 16-18: 1. Try Lambda
ChainTryLambda ==
    /\ Top = "chain.call"
    /\ stack' = Append(ReplaceTop("chain.lambda"), "lambda.call")
    /\ attempts' = Append(attempts, Attempt("lambda"))
    /\ runDef' = definition
    /\ UNCHANGED <<outerVars, ret, hooksOn, pc, runVars, monitorVars>>

\* lines 18-24, mutated: the hybrid stage is skipped
ChainAfterLambdaSkipsHybrid ==
    /\ Top = "chain.lambda" /\ ret.kind # "none"
    /\ IF ret.kind = "error" /\ FallsBackOn(ret.error)
       THEN /\ stack' = Append(ReplaceTop("chain.fargate"), "fargate.call")
            /\ attempts' = Append(AttemptSettled, Attempt("fargate"))
            /\ ret' = NoRet
            /\ runDef' = definition
       ELSE /\ stack' = Pop
            /\ attempts' = AttemptSettled
            /\ UNCHANGED <<ret, runDef>>
    /\ UNCHANGED <<outerVars, hooksOn, pc, runVars, monitorVars>>

\* lines 18-24 and 31: the lambda adapter's result is returned; its
\* LambdaTimeoutError starts the hybrid adapter; any other error is rethrown
ChainAfterLambda ==
    /\ Top = "chain.lambda" /\ ret.kind # "none"
    /\ IF ret.kind = "error" /\ FallsBackOn(ret.error)
       THEN /\ stack' = Append(ReplaceTop("chain.hybrid"), "hybrid.call")
            /\ attempts' = Append(AttemptSettled, Attempt("hybrid"))
            /\ ret' = NoRet
            /\ runDef' = definition
       ELSE /\ stack' = Pop
            /\ attempts' = AttemptSettled
            /\ UNCHANGED <<ret, runDef>>
    /\ UNCHANGED <<outerVars, hooksOn, pc, runVars, monitorVars>>

\* lines 24-28: the hybrid adapter's result is returned; whatever it throws
\* starts the fargate adapter
ChainAfterHybrid ==
    /\ Top = "chain.hybrid" /\ ret.kind # "none"
    /\ IF ret.kind = "error"
       THEN /\ stack' = Append(ReplaceTop("chain.fargate"), "fargate.call")
            /\ attempts' = Append(AttemptSettled, Attempt("fargate"))
            /\ ret' = NoRet
            /\ runDef' = definition
       ELSE /\ stack' = Pop
            /\ attempts' = AttemptSettled
            /\ UNCHANGED <<ret, runDef>>
    /\ UNCHANGED <<outerVars, hooksOn, pc, runVars, monitorVars>>

\* line 28: `return await this.fargateAdapter.run(definition, options)`
ChainAfterFargate ==
    /\ Top = "chain.fargate" /\ ret.kind # "none"
    /\ stack' = Pop
    /\ attempts' = AttemptSettled
    /\ UNCHANGED <<outerVars, ret, runDef, hooksOn, pc, runVars,
                   monitorVars>>

(* ------------------ runner/src/index.ts: run -------------------------- *)
\* lines 21-34: the fallback chain for "auto", the adapter otherwise
RunnerRun ==
    /\ Top = "runner.call"
    /\ stack' = <<CASE executionMode = "auto" -> "chain.call"
                    [] executionMode = "in-memory" -> "inmemory.call"
                    [] executionMode = "lambda" -> "lambda.call"
                    [] executionMode = "hybrid" -> "hybrid.call"
                    [] executionMode = "fargate" -> "fargate.call">>
    /\ runDef' = definition
    /\ UNCHANGED <<outerVars, ret, attempts, hooksOn, pc, runVars,
                   monitorVars>>

Next ==
    \/ RunnerRun
    \/ InMemoryAdapterRun
    \/ LambdaAdapterRun
    \/ FargateAdapterRun
    \/ AdapterSettles
    \/ HybridAdapterRun
    \/ HybridWholeSettles
    \/ HybridPrefixSettles
    \/ StepFunctionsAdapterRun
    \/ HybridSuffixSettles
    \/ ChainTryLambda
    \/ ChainAfterLambda
    \/ ChainAfterHybrid
    \/ ChainAfterFargate
    \/ RunPipelineStart
    \/ OnLevelStart
    \/ StepStart
    \/ \E c \in Ctors : ExecBegin(c)
    \/ \E c \in Ctors, o \in StepOutcomes : ExecEnd(c, o)
    \/ AwaitAllRejects
    \/ AwaitAllResolves
    \/ Finish
    \/ \E d \in TickDeltas : Tick(d)

Spec == Init /\ [][Next]_vars

(* ============ planner: computeCriticalPath (part_011 274-421) ========= *)
\* the node ids that exist (NodeId is a string; only equality and the order
\* of the ids are used)
NodeIds == {1, 2, 3}

\* line 296: meta?.timing?.p50Ms ?? 1000
DefaultP50Ms == 1000
\* line 297: meta?.timing?.p99Ms ?? p50 * 2
DefaultP99Factor == 2

\* StepMetadata.timing of one node: p50Ms and p99Ms are both optional
MetaChoices ==
    {[hasP50 |-> FALSE, p50Ms |-> 0, hasP99 |-> FALSE, p99Ms |-> 0],
     [hasP50 |-> TRUE, p50Ms |-> 1000, hasP99 |-> TRUE, p99Ms |-> 1000],
     [hasP50 |-> TRUE, p50Ms |-> 2000, hasP99 |-> TRUE, p99Ms |-> 2000]}

\* the arrays without repetition over a set of ids, up to a length
DistinctSeqs(ids, maxLen) ==
    {q \in UNION {[1..n -> ids] : n \in 0..maxLen} :
        \A i, j \in 1..Len(q) : i # j => q[i] # q[j]}

\* PipelineNodeDefinition: id and dependsOn (only membership of the array is
\* used); ids are unique in a definition, a node does not depend on itself
\* and every dependency is a node of the definition
NodeArrays ==
    {ns \in UNION {[1..n -> [id : NodeIds, dependsOn : SUBSET NodeIds]] :
                     n \in 0..Cardinality(NodeIds)} :
        /\ \A i, j \in 1..Len(ns) : i # j => ns[i].id # ns[j].id
        /\ \A i \in 1..Len(ns) :
              /\ ns[i].id \notin ns[i].dependsOn
              /\ ns[i].dependsOn \subseteq {ns[j].id : j \in 1..Len(ns)}}

\* the longest explicit entryNodes array that is followed
MaxEntryNodes == 2

\* registry PipelineDefinition (part_013 299-310): nodes and the optional
\* entryNodes, an array of ids of the definition
PlanDefinitions ==
    {d \in [nodes : NodeArrays, hasEntryNodes : BOOLEAN,
            entryNodes : DistinctSeqs(NodeIds, MaxEntryNodes)] :
        /\ Range(d.entryNodes) \subseteq {d.nodes[j].id : j \in 1..Len(d.nodes)}
        /\ ~d.hasEntryNodes => d.entryNodes = <<>>}

\* lines 294-306: the timing kept in nodeMap for a node
NodeTiming(id) ==
    LET meta == metaByNodeId[id]
        p50 == IF meta.hasP50 THEN meta.p50Ms ELSE DefaultP50Ms
        p99 == IF meta.hasP99 THEN meta.p99Ms ELSE p50 * DefaultP99Factor
    IN [optimisticMs |-> p50, pessimisticMs |-> p99]

\* lines 309-311: def.entryNodes ?? the ids of the nodes without dependencies,
\* in the order of def.nodes
RECURSIVE NoDependencyIds(_)
NoDependencyIds(ns) ==
    IF ns = <<>> THEN <<>>
    ELSE IF Head(ns).dependsOn = {}
         THEN <<Head(ns).id>> \o NoDependencyIds(Tail(ns))
         ELSE NoDependencyIds(Tail(ns))

EntryNodes ==
    IF planDef.hasEntryNodes THEN planDef.entryNodes
    ELSE NoDependencyIds(planDef.nodes)

\* lines 321-329: longestPath.set(entryId, { path: [entryId], timing })
\* for the entry ids in turn; lp is the map, keys its keys in insertion order
RECURSIVE InitEntries(_, _, _)
InitEntries(entries, lp, keys) ==
    IF entries = <<>> THEN [lp |-> lp, keys |-> keys]
    ELSE LET e == Head(entries)
             t == NodeTiming(e)
         IN InitEntries(Tail(entries),
                        [lp EXCEPT ![e] = [set |-> TRUE, path |-> <<e>>,
                                           optimisticMs |-> t.optimisticMs,
                                           pessimisticMs |-> t.pessimisticMs]],
                        IF lp[e].set THEN keys ELSE Append(keys, e))

\* lines 287-333: nodeMap, the entry nodes, the error for none, the first
\* entries of longestPath and the queue
CriticalPathStart ==
    /\ cpPc = "start"
    /\ IF EntryNodes = <<>>
       THEN /\ cpPc' = "threw"
            /\ criticalPath' = [NoCriticalPath EXCEPT
                                  !.kind = "error",
                                  !.error = "Pipeline has no entry nodes"]
            /\ UNCHANGED <<longestPath, longestPathKeys, queue>>
       ELSE LET first == InitEntries(EntryNodes, longestPath, <<>>)
            IN /\ longestPath' = first.lp
               /\ longestPathKeys' = first.keys
               /\ queue' = EntryNodes
               /\ cpPc' = "loop"
               /\ UNCHANGED criticalPath
    /\ processed' = {}
    /\ UNCHANGED <<planDef, metaByNodeId>>
    /\ UNCHANGED <<inputVars, hybridVars, target, stack, ret, attempts,
                   runDef, hooksOn, pc, runVars, monitorVars, planVars>>

\* lines 343-346: longestPath.get(nodeId) ?? { path: [nodeId], timing 0/0 }
CurrentPath(nodeId) ==
    IF longestPath[nodeId].set THEN longestPath[nodeId]
    ELSE [set |-> TRUE, path |-> <<nodeId>>, optimisticMs |-> 0,
          pessimisticMs |-> 0]

\* lines 358-363: the dependent has no path yet, or the new path is longer
\* in pessimistic time, or as long and longer in optimistic time
IsLonger(dependentPath, newOptimistic, newPessimistic) ==
    \/ ~dependentPath.set
    \/ newPessimistic > dependentPath.pessimisticMs
    \/ /\ newPessimistic = dependentPath.pessimisticMs
       /\ newOptimistic > dependentPath.optimisticMs

\* lines 349-379: the loop over def.nodes for the dependents of nodeId, from
\* index k on; lp, keys and q are longestPath, its keys and the queue so far
RECURSIVE UpdateDependents(_, _, _, _, _, _, _)
UpdateDependents(k, nodeId, currentPath, lp, keys, q, proc) ==
    IF k > Len(planDef.nodes) THEN [lp |-> lp, keys |-> keys, queue |-> q]
    ELSE
      LET dependent == planDef.nodes[k]
      IN IF nodeId \notin dependent.dependsOn
         THEN UpdateDependents(k + 1, nodeId, currentPath, lp, keys, q, proc)
         ELSE
           LET t == NodeTiming(dependent.id)
               newOptimistic == currentPath.optimisticMs + t.optimisticMs
               newPessimistic == currentPath.pessimisticMs + t.pessimisticMs
               longer == IsLonger(lp[dependent.id], newOptimistic,
                                  newPessimistic)
               lp2 == IF longer
                      THEN [lp EXCEPT ![dependent.id] =
                              [set |-> TRUE,
                               path |-> Append(currentPath.path, dependent.id),
                               optimisticMs |-> newOptimistic,
                               pessimisticMs |-> newPessimistic]]
                      ELSE lp
               keys2 == IF longer /\ ~lp[dependent.id].set
                        THEN Append(keys, dependent.id) ELSE keys
               allDepsProcessed == dependent.dependsOn \subseteq proc
               q2 == IF allDepsProcessed /\ dependent.id \notin Range(q)
                     THEN Append(q, dependent.id) ELSE q
           IN UpdateDependents(k + 1, nodeId, currentPath, lp2, keys2, q2,
                               proc)

\* lines 335-380: one turn of the while loop: the head of the queue is
\* skipped if it was processed, else marked and its dependents are updated;
\* the loop ends when the queue is empty
CriticalPathProcess ==
    /\ cpPc = "loop" /\ queue # <<>>
    /\ LET nodeId == Head(queue)
           rest == Tail(queue)
       IN IF nodeId \in processed
          THEN /\ queue' = rest
               /\ cpPc' = IF rest = <<>> THEN "select" ELSE "loop"
               /\ UNCHANGED <<processed, longestPath, longestPathKeys>>
          ELSE LET upd == UpdateDependents(1, nodeId, CurrentPath(nodeId),
                                           longestPath, longestPathKeys, rest,
                                           processed \cup {nodeId})
               IN /\ processed' = processed \cup {nodeId}
                  /\ longestPath' = upd.lp
                  /\ longestPathKeys' = upd.keys
                  /\ queue' = upd.queue
                  /\ cpPc' = IF upd.queue = <<>> THEN "select" ELSE "loop"
    /\ UNCHANGED <<planDef, metaByNodeId, criticalPath>>
    /\ UNCHANGED <<inputVars, hybridVars, target, stack, ret, attempts,
                   runDef, hooksOn, pc, runVars, monitorVars, planVars>>

\* lines 383-385: the ids of the nodes no node depends on, in the order of
\* def.nodes
RECURSIVE ExitNodesFrom(_)
ExitNodesFrom(k) ==
    IF k > Len(planDef.nodes) THEN <<>>
    ELSE LET n == planDef.nodes[k]
         IN IF \E j \in 1..Len(planDef.nodes) :
                  n.id \in planDef.nodes[j].dependsOn
            THEN ExitNodesFrom(k + 1)
            ELSE <<n.id>> \o ExitNodesFrom(k + 1)

ExitNodes == ExitNodesFrom(1)

\* lines 389-394 and 405-411: the first path, in the order of ids, whose
\* pessimistic time is greater than that of every path before it
RECURSIVE MaxPath(_, _)
MaxPath(ids, best) ==
    IF ids = <<>> THEN best
    ELSE LET path == longestPath[Head(ids)]
         IN IF path.set /\ (~best.set
                              \/ path.pessimisticMs > best.pessimisticMs)
            THEN MaxPath(Tail(ids), path)
            ELSE MaxPath(Tail(ids), best)

\* lines 382-420: the longest path among the exit nodes, or among all of
\* longestPath when there is no exit node, is returned; without any, the
\* error "Could not compute critical path"
CriticalPathSelect ==
    /\ cpPc = "select"
    /\ LET maxPath == IF ExitNodes = <<>>
                      THEN MaxPath(longestPathKeys, NoPath)
                      ELSE MaxPath(ExitNodes, NoPath)
       IN IF maxPath.set
          THEN /\ cpPc' = "done"
               /\ criticalPath' = [kind |-> "result",
                                   nodeIds |-> maxPath.path,
                                   optimisticMs |-> maxPath.optimisticMs,
                                   pessimisticMs |-> maxPath.pessimisticMs,
                                   error |-> "none"]
          ELSE /\ cpPc' = "threw"
               /\ criticalPath' = [NoCriticalPath EXCEPT
                                     !.kind = "error",
                                     !.error = "Could not compute critical path"]
    /\ UNCHANGED <<planDef, metaByNodeId, longestPath, longestPathKeys,
                   processed, queue>>
    /\ UNCHANGED <<inputVars, hybridVars, target, stack, ret, attempts,
                   runDef, hooksOn, pc, runVars, monitorVars, planVars>>

\* the runner while the planner is what is called
RunnerIdle ==
    /\ definition = <<>>
    /\ executionMode = "in-memory"
    /\ isFargate = "unread"
    /\ timeoutMs \in TimeoutChoices
    /\ stack = <<>>
    /\ ret = NoRet
    /\ attempts = <<>>
    /\ runDef = <<>>
    /\ hooksOn = FALSE
    /\ pc = "idle"
    /\ levels = <<>>
    /\ levelIdx = 0
    /\ launchIdx = 0
    /\ stepState = IdleSteps
    /\ ctx = FreshCtx
    /\ executedSteps = <<>>
    /\ errors = <<>>
    /\ completedLevels = <<>>
    /\ elapsed = 0
    /\ warningEmitted = FALSE
    /\ cleanStop = FALSE
    /\ raised = {}
    /\ stoppers = {}
    /\ hookThrew = FALSE
    /\ prefixResult = NoRet
    /\ suffixSource = "none"
    /\ target = {}
    /\ warnings = 0
    /\ lastCheckAt = -1

\* computeCriticalPath(def, metaByNodeId) is called
PlannerInit ==
    /\ RunnerIdle
    /\ planDef \in PlanDefinitions
    /\ metaByNodeId \in [NodeIds -> MetaChoices]
    /\ cpPc = "start"
    /\ longestPath = [id \in NodeIds |-> NoPath]
    /\ longestPathKeys = <<>>
    /\ processed = {}
    /\ queue = <<>>
    /\ criticalPath = NoCriticalPath
    /\ config = NoConfig
    /\ executionHint = <<>>
    /\ plan = NoPlan
    /\ registry = <<>>
    /\ calls = <<>>
    /\ converted = <<>>

PlannerNext ==
    \/ CriticalPathStart
    \/ CriticalPathProcess
    \/ CriticalPathSelect

PlannerSpec == PlannerInit /\ [][PlannerNext]_vars

(* ============ planner: planExecution (part_011 127-270) =============== *)
\* line 155: config.safetyMargin ?? 0.1, in hundredths
DefaultSafetyMarginPct == 10
\* line 173: safeLambdaLimit * 0.8, in tenths
HybridThresholdTenths == 8
\* line 225: safeLambdaLimit * 0.7, in tenths
PrefixShareTenths == 7
\* line 223: meta?.timing?.p99Ms ?? 1000
CutDefaultP99Ms == 1000

\* PlannerConfig: lambdaMaxMs and the optional safetyMargin (a fraction, kept
\* in hundredths); defaultExecutionMode is never read by planExecution
PlannerConfigs ==
    {[lambdaMaxMs |-> 6000, hasSafetyMargin |-> FALSE, safetyMarginPct |-> 0],
     [lambdaMaxMs |-> 5000, hasSafetyMargin |-> TRUE, safetyMarginPct |-> 0],
     [lambdaMaxMs |-> 8000, hasSafetyMargin |-> TRUE, safetyMarginPct |-> 50]}

\* StepMetadata.executionHint; planExecution only tells "step-functions-only"
\* from the rest ("lambda-only", "auto", absent)
ExecutionHints == {"auto", "step-functions-only"}

\* the most nodes that carry the hint "step-functions-only"
MaxHinted == 1

HintChoices ==
    {h \in [NodeIds -> ExecutionHints] :
        Cardinality({id \in NodeIds : h[id] = "step-functions-only"})
            <= MaxHinted}

\* planExecution is followed on the definitions whose ids are 1, 2, ... in
\* the order of def.nodes: the planner compares ids for equality only
OrderedPlanDefinitions ==
    {d \in PlanDefinitions : \A i \in 1..Len(d.nodes) : d.nodes[i].id = i}

\* lines 141-143: def.nodes.some(executionHint === "step-functions-only")
HasStepFunctionsOnly ==
    \E k \in 1..Len(planDef.nodes) :
        executionHint[planDef.nodes[k].id] = "step-functions-only"

\* line 155
SafetyMarginPct ==
    IF config.hasSafetyMargin THEN config.safetyMarginPct
    ELSE DefaultSafetyMarginPct

\* lines 156 and 213: safeLambdaLimit = lambdaMaxMs * (1 - safetyMargin),
\* times 100
SafeLambdaLimitX100 == config.lambdaMaxMs * (100 - SafetyMarginPct)

\* line 163: pessimisticTime >= safeLambdaLimit
ReachesSafeLimitStrict(pessimisticTime) ==
    pessimisticTime * 100 > SafeLambdaLimitX100

ReachesSafeLimit(pessimisticTime) ==
    pessimisticTime * 100 >= SafeLambdaLimitX100

\* lines 173-174: pessimisticTime >= safeLambdaLimit * 0.8
ReachesHybridThreshold(pessimisticTime) ==
    pessimisticTime * 1000 >= SafeLambdaLimitX100 * HybridThresholdTenths

\* line 225: prefixTime + nodeTime <= safeLambdaLimit * 0.7
FitsPrefix(time) == time * 1000 <= SafeLambdaLimitX100 * PrefixShareTenths

\* lines 222-223: the time of a node of the critical path in the cut
CutNodeTime(nodeId) ==
    IF metaByNodeId[nodeId].hasP99 THEN metaByNodeId[nodeId].p99Ms
    ELSE CutDefaultP99Ms

\* lines 220-236: the walk along the critical path from index i on
RECURSIVE CutWalk(_, _, _)
CutWalk(i, prefixTime, lambdaNodes) ==
    IF i > Len(criticalPath.nodeIds)
    THEN [lambdaNodes |-> lambdaNodes, stepFunctionsNodes |-> <<>>]
    ELSE LET nodeId == criticalPath.nodeIds[i]
             nodeTime == CutNodeTime(nodeId)
         IN IF FitsPrefix(prefixTime + nodeTime)
            THEN CutWalk(i + 1, prefixTime + nodeTime,
                         Append(lambdaNodes, nodeId))
            ELSE [lambdaNodes |-> lambdaNodes,
                  stepFunctionsNodes |->
                      SubSeq(criticalPath.nodeIds, i,
                             Len(criticalPath.nodeIds))]

\* Set.add on a Set kept in insertion order
SetAdd(members, x) ==
    IF x \in Range(members) THEN members ELSE Append(members, x)

\* new Set(array)
RECURSIVE NewSet(_)
NewSet(array) ==
    IF array = <<>> THEN <<>>
    ELSE SetAdd(NewSet(SubSeq(array, 1, Len(array) - 1)), array[Len(array)])

\* lines 245-256: the loop over def.nodes from index k on
RECURSIVE AssignOffPath(_, _, _)
AssignOffPath(k, allLambdaNodes, allStepFunctionsNodes) ==
    IF k > Len(planDef.nodes)
    THEN [lambdaNodes |-> allLambdaNodes,
          stepFunctionsNodes |-> allStepFunctionsNodes]
    ELSE LET node == planDef.nodes[k]
         IN IF node.id \in Range(criticalPath.nodeIds)
            THEN AssignOffPath(k + 1, allLambdaNodes, allStepFunctionsNodes)
            ELSE IF /\ node.dependsOn \subseteq Range(allLambdaNodes)
                    /\ node.dependsOn # {}
                 THEN AssignOffPath(k + 1, SetAdd(allLambdaNodes, node.id),
                                    allStepFunctionsNodes)
                 ELSE AssignOffPath(k + 1, allLambdaNodes,
                                    SetAdd(allStepFunctionsNodes, node.id))

\* line 239: lambdaNodes.length > 0 && stepFunctionsNodes.length > 0
IsSplitEitherSide(walk) ==
    walk.lambdaNodes # <<>> \/ walk.stepFunctionsNodes # <<>>

IsSplit(walk) == walk.lambdaNodes # <<>> /\ walk.stepFunctionsNodes # <<>>

\* lines 206-270: the hybrid plan, or NoPlan for null
findHybridCutPoint ==
    LET walk == CutWalk(1, 0, <<>>)
    IN IF IsSplit(walk)
       THEN LET all == AssignOffPath(1, NewSet(walk.lambdaNodes),
                                     NewSet(walk.stepFunctionsNodes))
            IN [kind |-> "result", mode |-> "hybrid",
                lambdaNodes |-> all.lambdaNodes,
                stepFunctionsNodes |-> all.stepFunctionsNodes,
                error |-> "none"]
       ELSE NoPlan

\* a plan without node lists
PlanOf(mode) == [NoPlan EXCEPT !.kind = "result", !.mode = mode]

\* lines 127-191, once computeCriticalPath returned
PlanExecutionDecides ==
    /\ cpPc = "done" /\ plan = NoPlan
    /\ plan' = IF HasStepFunctionsOnly THEN PlanOf("step-functions")
               ELSE IF ReachesSafeLimit(criticalPath.pessimisticMs)
               THEN PlanOf("step-functions")
               ELSE IF /\ ReachesHybridThreshold(criticalPath.pessimisticMs)
                       /\ findHybridCutPoint # NoPlan
               THEN findHybridCutPoint
               ELSE PlanOf("lambda")
    /\ UNCHANGED <<planDef, metaByNodeId, cpPc, longestPath, longestPathKeys,
                   processed, queue, criticalPath, config, executionHint,
                   converterVars>>
    /\ UNCHANGED <<inputVars, hybridVars, target, stack, ret, attempts,
                   runDef, hooksOn, pc, runVars, monitorVars>>

\* line 135: what computeCriticalPath throws leaves planExecution
PlanExecutionThrows ==
    /\ cpPc = "threw" /\ plan = NoPlan
    /\ plan' = [NoPlan EXCEPT !.kind = "error", !.error = criticalPath.error]
    /\ UNCHANGED <<planDef, metaByNodeId, cpPc, longestPath, longestPathKeys,
                   processed, queue, criticalPath, config, executionHint,
                   converterVars>>
    /\ UNCHANGED <<inputVars, hybridVars, target, stack, ret, attempts,
                   runDef, hooksOn, pc, runVars, monitorVars>>

\* planExecution(def, metaByNodeId, config) is called
PlanInit ==
    /\ RunnerIdle
    /\ planDef \in OrderedPlanDefinitions
    /\ metaByNodeId \in [NodeIds -> MetaChoices]
    /\ config \in PlannerConfigs
    /\ executionHint \in HintChoices
    /\ plan = NoPlan
    /\ registry = <<>>
    /\ calls = <<>>
    /\ converted = <<>>
    /\ cpPc = "start"
    /\ longestPath = [id \in NodeIds |-> NoPath]
    /\ longestPathKeys = <<>>
    /\ processed = {}
    /\ queue = <<>>
    /\ criticalPath = NoCriticalPath

PlanNext ==
    \/ CriticalPathStart
    \/ CriticalPathProcess
    \/ CriticalPathSelect
    \/ PlanExecutionDecides
    \/ PlanExecutionThrows

PlanSpec == PlanInit /\ [][PlanNext]_vars

(* ====== registry: StepRegistry and the converters (part_013 43-190) ==== *)
\* the strings used as registry ids, node ids and stepRefs, in a fixed order
NameOrder == <<"a", "b", "c">>
Names == Range(NameOrder)

\* StepRegistry.map: register() refuses an id that is registered, the same
\* constructor may be registered under several ids
Registries ==
    {r \in UNION {[1..n -> [id : Names, ctor : Ctors]] :
                    n \in 0..Cardinality(Names)} :
        \A i, j \in 1..Len(r) : i # j => r[i].id # r[j].id}

\* StepRegistry.has(id)
IsRegisteredId(id) == \E i \in 1..Len(registry) : registry[i].id = id

\* StepRegistry.resolve(id), for a registered id
Resolve(id) ==
    registry[CHOOSE i \in 1..Len(registry) : registry[i].id = id].ctor

\* lines 125-131: ctorToId, filled in the order of getRegisteredIds(); a
\* later id replaces an earlier one of the same constructor
HasCtorId(ctor) == \E i \in 1..Len(registry) : registry[i].ctor = ctor

CtorToIdFirst(ctor) ==
    registry[CHOOSE i \in 1..Len(registry) :
                /\ registry[i].ctor = ctor
                /\ \A j \in 1..Len(registry) :
                      registry[j].ctor = ctor => j >= i].id

CtorToId(ctor) ==
    registry[CHOOSE i \in 1..Len(registry) :
                /\ registry[i].ctor = ctor
                /\ \A j \in 1..Len(registry) :
                      registry[j].ctor = ctor => j <= i].id

\* what a converter returns or throws
StepsValue(steps) == [kind |-> "steps", steps |-> steps]
DefValue(nodes, entryNodes) ==
    [kind |-> "def", nodes |-> nodes, hasEntryNodes |-> entryNodes # <<>>,
     entryNodes |-> entryNodes]
ErrorValue(message) == [kind |-> "error", error |-> message]

\* lines 137-160: the first pass creates a node per step, with the registry
\* id of its constructor as id and stepRef
FirstPassNodes(steps) ==
    [i \in 1..Len(steps) |->
        [id |-> CtorToId(steps[i].ctor), type |-> "task", dependsOn |-> {},
         stepRef |-> CtorToId(steps[i].ctor)]]

\* line 166: nodes.find((n) => n.id === nodeId), as an index
FindNode(nodes, nodeId) ==
    CHOOSE k \in 1..Len(nodes) :
        /\ nodes[k].id = nodeId
        /\ \A j \in 1..(k - 1) : nodes[j].id # nodeId

\* lines 162-179 without the assignment of line 169
SecondPassWritesNothing(steps, i, nodes) == nodes

\* lines 162-179: the second pass, from step i on, writes the dependencies
\* of a step on the node found for it
RECURSIVE SecondPass(_, _, _)
SecondPass(steps, i, nodes) ==
    IF i > Len(steps) THEN nodes
    ELSE LET step == steps[i]
             k == FindNode(nodes, CtorToId(step.ctor))
         IN IF step.dependsOn = {}
            THEN SecondPass(steps, i + 1, nodes)
            ELSE SecondPass(steps, i + 1,
                            [nodes EXCEPT ![k].dependsOn =
                                {CtorToId(c) : c \in step.dependsOn}])

\* lines 181-184: the ids of the nodes without dependencies, in order
RECURSIVE EntryIdsOf(_)
EntryIdsOf(nodes) ==
    IF nodes = <<>> THEN <<>>
    ELSE IF Head(nodes).dependsOn = {}
         THEN <<Head(nodes).id>> \o EntryIdsOf(Tail(nodes))
         ELSE EntryIdsOf(Tail(nodes))

\* lines 120-190
registeredStepsToPipelineDefinition(steps) ==
    IF \E i \in 1..Len(steps) : ~HasCtorId(steps[i].ctor)
    THEN ErrorValue("is not registered in the registry")
    ELSE IF \E i \in 1..Len(steps) :
                \E c \in steps[i].dependsOn :
                    \A j \in 1..Len(steps) : steps[j].ctor # c
    THEN ErrorValue("is not found in the registered steps")
    ELSE LET nodes == SecondPass(steps, 1, FirstPassNodes(steps))
         IN DefValue(nodes, EntryIdsOf(nodes))

\* lines 53-64: nodeIdToCtor after the first pass; a later node replaces an
\* earlier one of the same id
NodeIdToCtor(nodes, nodeId) ==
    Resolve(nodes[CHOOSE k \in 1..Len(nodes) :
                     /\ nodes[k].id = nodeId
                     /\ \A j \in 1..Len(nodes) :
                           nodes[j].id = nodeId => j <= k].stepRef)

\* lines 43-94; every node of the definitions followed has a stepRef
pipelineDefinitionToRegisteredSteps(def) ==
    IF \E k \in 1..Len(def.nodes) : ~IsRegisteredId(def.nodes[k].stepRef)
    THEN ErrorValue("Unknown stepRef")
    ELSE IF \E k \in 1..Len(def.nodes) :
                \E d \in def.nodes[k].dependsOn :
                    \A j \in 1..Len(def.nodes) : def.nodes[j].id # d
    THEN ErrorValue("is not found in pipeline definition")
    ELSE StepsValue(
            [k \in 1..Len(def.nodes) |->
                [ctor |-> Resolve(def.nodes[k].stepRef),
                 dependsOn |-> {NodeIdToCtor(def.nodes, d) :
                                  d \in def.nodes[k].dependsOn}]])

\* the value a conversion is applied to, and the number of conversions made
LastConverted == converted[Len(converted)]
MaxConversions == 2

\* registeredStepsToPipelineDefinition(steps, registry) is called on the
\* steps at hand
StepsToDefinition ==
    /\ converted # <<>> /\ Len(converted) <= MaxConversions
    /\ LastConverted.kind = "steps"
    /\ converted' = Append(converted,
                           registeredStepsToPipelineDefinition(
                               LastConverted.steps))
    /\ UNCHANGED <<registry, calls>>
    /\ UNCHANGED <<inputVars, hybridVars, target, stack, ret, attempts,
                   runDef, hooksOn, pc, runVars, monitorVars>>
    /\ UNCHANGED <<planDef, metaByNodeId, cpPc, longestPath, longestPathKeys,
                   processed, queue, criticalPath, config, executionHint,
                   plan>>

\* pipelineDefinitionToRegisteredSteps(def, registry) is called on the
\* definition at hand
DefinitionToSteps ==
    /\ converted # <<>> /\ Len(converted) <= MaxConversions
    /\ LastConverted.kind = "def"
    /\ converted' = Append(converted,
                           pipelineDefinitionToRegisteredSteps(LastConverted))
    /\ UNCHANGED <<registry, calls>>
    /\ UNCHANGED <<inputVars, hybridVars, target, stack, ret, attempts,
                   runDef, hooksOn, pc, runVars, monitorVars>>
    /\ UNCHANGED <<planDef, metaByNodeId, cpPc, longestPath, longestPathKeys,
                   processed, queue, criticalPath, config, executionHint,
                   plan>>

\* RegisteredStep[] given to the converter: constructors 1, 2, ... in order
\* (each at most once), dependencies on any other constructor
ConverterSteps ==
    {steps \in UNION {[1..n -> RegisteredStep] : n \in 0..Cardinality(Ctors)} :
        \A i \in 1..Len(steps) :
            steps[i].ctor = i /\ i \notin steps[i].dependsOn}

\* the nodes of a PipelineDefinition given to the converter: tasks with ids
\* "a", "b", ... in order, any stepRef, dependencies on other nodes of it;
\* a definition names no constructor, so the registry it is converted with
\* is taken with its constructors in order of first appearance
ConverterNodes ==
    {nodes \in UNION {[1..n -> [id : Names, type : {"task"},
                               dependsOn : SUBSET Names, stepRef : Names]] :
                        n \in 0..Len(NameOrder)} :
        \A k \in 1..Len(nodes) :
            /\ nodes[k].id = NameOrder[k]
            /\ nodes[k].id \notin nodes[k].dependsOn
            /\ nodes[k].dependsOn \subseteq {NameOrder[j] : j \in 1..Len(nodes)}}

ConverterInit ==
    /\ RunnerIdle
    /\ planDef = NoPlanDef
    /\ metaByNodeId = <<>>
    /\ cpPc = "idle"
    /\ longestPath = <<>>
    /\ longestPathKeys = <<>>
    /\ processed = {}
    /\ queue = <<>>
    /\ criticalPath = NoCriticalPath
    /\ config = NoConfig
    /\ executionHint = <<>>
    /\ plan = NoPlan
    /\ calls = <<>>
    /\ \/ /\ registry \in Registries
          /\ converted \in {<<StepsValue(steps)>> : steps \in ConverterSteps}
       \/ /\ registry \in {r \in Registries : FirstAppearanceOrder(r)}
          /\ converted \in {<<DefValue(nodes, <<>>)>> :
                               nodes \in ConverterNodes}

ConverterNext ==
    \/ StepsToDefinition
    \/ DefinitionToSteps

ConverterSpec == ConverterInit /\ [][ConverterNext]_vars

(* ===== asl: pipelineDefinitionToAsl (part_022 195-300) and ============ *)
(* ===== aslToPipelineDefinition (part_023 238-369) ===================== *)
\* an ASL state under its name in States; the transition fields of
\* AslTaskState, AslChoiceState and AslParallelState (part_023 27-98), with
\* "none" for an absent string; Choices, Branches and Catch are kept as the
\* sets of the names their entries point at (Next, StartAt, Next)
AslStateOf(name, type) ==
    [name |-> name, Type |-> type, Next |-> "none", End |-> FALSE,
     hasChoices |-> FALSE, Choices |-> {}, Default |-> "none",
     hasBranches |-> FALSE, Branches |-> {}, Catch |-> {}]

\* PipelineNodeDefinition.config: absent, or an object with the fields of an
\* ASL state
NoAslConfig == [present |-> FALSE, state |-> AslStateOf("none", "none")]
AslConfigOf(state) == [present |-> TRUE, state |-> state]

AslValue(startAt, states) ==
    [kind |-> "asl", StartAt |-> startAt, States |-> states]

\* part_022 304-395: convertNodeToAslState, without the fields that carry no
\* transition
convertNodeToAslState(node) ==
    LET base == AslStateOf(node.id, "none")
        cfg == node.config.state
    IN CASE node.type = "task" ->
              [base EXCEPT !.Type = "Task",
                           !.Catch = IF node.config.present THEN cfg.Catch
                                     ELSE {}]
         [] node.type = "pass" -> [base EXCEPT !.Type = "Pass"]
         [] node.type = "choice" ->
              [base EXCEPT !.Type = "Choice",
                           !.hasChoices = TRUE,
                           !.Choices = IF /\ node.config.present
                                          /\ cfg.hasChoices
                                       THEN cfg.Choices ELSE {},
                           !.Default = IF node.config.present
                                       THEN cfg.Default ELSE "none"]
         [] node.type = "parallel" ->
              [base EXCEPT !.Type = "Parallel",
                           !.hasBranches = TRUE,
                           !.Branches = IF /\ node.config.present
                                           /\ cfg.hasBranches
                                        THEN cfg.Branches ELSE {}]
         [] OTHER -> [base EXCEPT !.Type = "Task"]

\* part_022 235: def.nodes.filter((n) => n.dependsOn.includes(node.id)), as
\* the indices of the nodes in the order of def.nodes
NextNodeIndices(def, id) ==
    {k \in 1..Len(def.nodes) : id \in def.nodes[k].dependsOn}

\* nextNodes[0].id
FirstNextNode(def, id) ==
    def.nodes[CHOOSE k \in NextNodeIndices(def, id) :
                 \A j \in NextNodeIndices(def, id) : k <= j].id

\* part_022 229-268: the state of a node after the loop that builds the
\* Next chains
ChainedState(def, node) ==
    LET state == convertNodeToAslState(node)
        nextNodes == NextNodeIndices(def, node.id)
    IN IF nextNodes = {} THEN [state EXCEPT !.End = TRUE]
       ELSE IF Cardinality(nextNodes) = 1
       THEN [state EXCEPT !.Next = FirstNextNode(def, node.id)]
       ELSE IF state.Type \in {"Task", "Pass"}
       THEN [AslStateOf(node.id, "Parallel") EXCEPT
                !.hasBranches = TRUE,
                !.Branches = {def.nodes[k].id : k \in nextNodes}]
       ELSE [state EXCEPT !.Next = FirstNextNode(def, node.id)]

\* part_022 213-221
StartAtOf(def) ==
    IF def.hasEntryNodes /\ def.entryNodes # <<>> THEN def.entryNodes[1]
    ELSE IF EntryIdsOf(def.nodes) # <<>> THEN EntryIdsOf(def.nodes)[1]
    ELSE IF def.nodes # <<>> THEN def.nodes[1].id
    ELSE "Start"

\* part_022 195-300; asl-validator reports through its return value, which
\* is not read
pipelineDefinitionToAsl(def) ==
    AslValue(StartAtOf(def),
             [k \in 1..Len(def.nodes) |-> ChainedState(def, def.nodes[k])])

\* part_023 264-320 without the Catch transitions of lines 306-319
PointsAtUncaught(state, name) ==
    \/ state.Next = name
    \/ /\ state.Type = "Choice" /\ state.hasChoices
       /\ (name \in state.Choices \/ state.Default = name)
    \/ /\ state.Type = "Parallel" /\ state.hasBranches
       /\ name \in state.Branches

\* part_023 264-320: the state adds its name to dependents.get(name)
PointsAt(state, name) ==
    \/ state.Next = name
    \/ /\ state.Type = "Choice" /\ state.hasChoices
       /\ (name \in state.Choices \/ state.Default = name)
    \/ /\ state.Type = "Parallel" /\ state.hasBranches
       /\ name \in state.Branches
    \/ name \in state.Catch

\* part_023 374-394
mapAslTypeToNodeType(aslType) ==
    CASE aslType = "Task" -> "task"
      [] aslType = "Pass" -> "pass"
      [] aslType = "Choice" -> "choice"
      [] aslType = "Parallel" -> "parallel"
      [] OTHER -> "task"

\* part_023 323-350: the nodes, one per state in the order of States
ImportedAslNodes(asl) ==
    [k \in 1..Len(asl.States) |->
        [id |-> asl.States[k].name,
         type |-> mapAslTypeToNodeType(asl.States[k].Type),
         dependsOn |-> {asl.States[j].name :
                          j \in {i \in 1..Len(asl.States) :
                                    PointsAt(asl.States[i],
                                             asl.States[k].name)}},
         config |-> AslConfigOf(asl.States[k])]]

\* part_023 352-363: the ids of the nodes without dependencies or named by
\* StartAt, then StartAt if it is not among them
RECURSIVE AslEntryIds(_, _)
AslEntryIds(nodes, startAt) ==
    IF nodes = <<>> THEN <<>>
    ELSE IF Head(nodes).dependsOn = {} \/ Head(nodes).id = startAt
         THEN <<Head(nodes).id>> \o AslEntryIds(Tail(nodes), startAt)
         ELSE AslEntryIds(Tail(nodes), startAt)

\* part_023 238-369
aslToPipelineDefinition(asl) ==
    LET nodes == ImportedAslNodes(asl)
        found == AslEntryIds(nodes, asl.StartAt)
        entryNodes == IF asl.StartAt \in Range(found) THEN found
                      ELSE Append(found, asl.StartAt)
    IN DefValue(nodes, entryNodes)

\* pipelineDefinitionToAsl(def) is called on the definition at hand
AslExport ==
    /\ converted # <<>> /\ Len(converted) <= MaxConversions
    /\ LastConverted.kind = "def"
    /\ converted' = Append(converted, pipelineDefinitionToAsl(LastConverted))
    /\ UNCHANGED <<registry, calls>>
    /\ UNCHANGED <<inputVars, hybridVars, target, stack, ret, attempts,
                   runDef, hooksOn, pc, runVars, monitorVars>>
    /\ UNCHANGED <<planDef, metaByNodeId, cpPc, longestPath, longestPathKeys,
                   processed, queue, criticalPath, config, executionHint,
                   plan>>

\* aslToPipelineDefinition(aslJson) is called on the state machine at hand
AslImport ==
    /\ converted # <<>> /\ Len(converted) <= MaxConversions
    /\ LastConverted.kind = "asl"
    /\ converted' = Append(converted, aslToPipelineDefinition(LastConverted))
    /\ UNCHANGED <<registry, calls>>
    /\ UNCHANGED <<inputVars, hybridVars, target, stack, ret, attempts,
                   runDef, hooksOn, pc, runVars, monitorVars>>
    /\ UNCHANGED <<planDef, metaByNodeId, cpPc, longestPath, longestPathKeys,
                   processed, queue, criticalPath, config, executionHint,
                   plan>>

\* the names of the states of the machines imported, in the order of States
AslStateNames == <<"a", "b">>

\* the states a machine imported may hold under a name: a Task with Next
\* and at most one Catch, a Pass with Next, a Choice with Choices and
\* Default, a Parallel with Branches and Next; a transition may name any
\* string, a state of the machine or not
AslStatesNamed(name) ==
    {[AslStateOf(name, "Task") EXCEPT !.Next = n, !.Catch = c] :
        n \in Names \cup {"none"},
        c \in {t \in SUBSET Names : Cardinality(t) <= 1}}
    \cup {[AslStateOf(name, "Pass") EXCEPT !.Next = n] :
             n \in Names \cup {"none"}}
    \cup {[AslStateOf(name, "Choice") EXCEPT
              !.hasChoices = TRUE, !.Choices = c, !.Default = d] :
             c \in SUBSET Names, d \in Names \cup {"none"}}
    \cup {[AslStateOf(name, "Parallel") EXCEPT
              !.hasBranches = TRUE, !.Branches = b, !.Next = n] :
             b \in SUBSET Names, n \in Names \cup {"none"}}

AslMachines ==
    {AslValue(states[1].name, states) :
        states \in {q \in UNION {[1..n -> UNION {AslStatesNamed(nm) :
                                                   nm \in Range(AslStateNames)}] :
                                    n \in 1..Len(AslStateNames)} :
                       \A k \in 1..Len(q) : q[k].name = AslStateNames[k]}}

\* the nodes of the definitions exported: ids "a", "b", ... in order, any
\* type, dependencies on other nodes of the definition; a choice or a
\* parallel node comes without config or with the config an import gives it
\* (Choices or Branches naming the nodes that depend on it)
AslNodesAt(k, n) ==
    {[id |-> NameOrder[k], type |-> t, dependsOn |-> d, mirrored |-> m] :
        t \in {"task", "pass", "choice", "parallel"},
        d \in SUBSET ({NameOrder[j] : j \in 1..n} \ {NameOrder[k]}),
        m \in BOOLEAN}

AslNodeArrays ==
    UNION {{nodes \in [1..n -> UNION {AslNodesAt(k, n) : k \in 1..n}] :
               \A k \in 1..n :
                   /\ nodes[k].id = NameOrder[k]
                   /\ nodes[k].type \in {"task", "pass"}
                          => ~nodes[k].mirrored} :
             n \in 0..Len(NameOrder)}

AslNodeConfig(nodes, k) ==
    LET successors == {nodes[j].id : j \in {i \in 1..Len(nodes) :
                                              nodes[k].id \in nodes[i].dependsOn}}
    IN IF ~nodes[k].mirrored THEN NoAslConfig
       ELSE IF nodes[k].type = "choice"
       THEN AslConfigOf([AslStateOf(nodes[k].id, "Choice") EXCEPT
                            !.hasChoices = TRUE, !.Choices = successors])
       ELSE AslConfigOf([AslStateOf(nodes[k].id, "Parallel") EXCEPT
                            !.hasBranches = TRUE, !.Branches = successors])

AslDefinitions ==
    {DefValue([k \in 1..Len(nodes) |->
                  [id |-> nodes[k].id, type |-> nodes[k].type,
                   dependsOn |-> nodes[k].dependsOn,
                   config |-> AslNodeConfig(nodes, k)]], <<>>) :
        nodes \in AslNodeArrays}

AslInit ==
    /\ RunnerIdle
    /\ planDef = NoPlanDef
    /\ metaByNodeId = <<>>
    /\ cpPc = "idle"
    /\ longestPath = <<>>
    /\ longestPathKeys = <<>>
    /\ processed = {}
    /\ queue = <<>>
    /\ criticalPath = NoCriticalPath
    /\ config = NoConfig
    /\ executionHint = <<>>
    /\ plan = NoPlan
    /\ registry = <<>>
    /\ calls = <<>>
    /\ converted \in {<<m>> : m \in AslMachines}
                     \cup {<<d>> : d \in AslDefinitions}

AslNext ==
    \/ AslExport
    \/ AslImport

AslSpec == AslInit /\ [][AslNext]_vars

(* ===== bpmn: pipelineDefinitionToBpmn (part_021 26-147) and =========== *)
(* ===== bpmnToPipelineDefinition (part_018 32-147) ===================== *)
\* a flow element that is no sequence flow, and a sequence flow with the ids
\* its sourceRef and targetRef name
BpmnElement(id, type) == [id |-> id, type |-> type]
SequenceFlow(sourceRef, targetRef) ==
    [sourceRef |-> sourceRef, targetRef |-> targetRef]

\* the flowElements of the process: the elements in document order and the
\* sequence flows in document order
BpmnValue(elements, flows) ==
    [kind |-> "bpmn", elements |-> elements, flows |-> flows]

StartEventId == "StartEvent_1"
EndEventId == "EndEvent_1"

\* part_021 152-197: createBpmnElementFromNode
createBpmnElementFromNode(node) ==
    BpmnElement(node.id,
                CASE node.type = "task" -> "bpmn:ServiceTask"
                  [] node.type = "pass" -> "bpmn:ScriptTask"
                  [] node.type = "choice" -> "bpmn:ExclusiveGateway"
                  [] node.type = "parallel" -> "bpmn:ParallelGateway"
                  [] OTHER -> "bpmn:ServiceTask")

\* the ids nodeToElementMap has an element for
ElementIdsOf(def) == {def.nodes[k].id : k \in 1..Len(def.nodes)}

\* part_021 80-92: a flow from the start event to each entry node that has
\* an element
RECURSIVE StartFlows(_, _)
StartFlows(def, entryNodeIds) ==
    IF entryNodeIds = <<>> THEN <<>>
    ELSE (IF Head(entryNodeIds) \in ElementIdsOf(def)
          THEN <<SequenceFlow(StartEventId, Head(entryNodeIds))>>
          ELSE <<>>) \o StartFlows(def, Tail(entryNodeIds))

\* part_021 99-110: a flow from each dependency that has an element to the
\* node
RECURSIVE FlowsInto(_, _, _)
FlowsInto(def, node, order) ==
    IF order = <<>> THEN <<>>
    ELSE (IF Head(order) \in node.dependsOn /\ Head(order) \in ElementIdsOf(def)
          THEN <<SequenceFlow(Head(order), node.id)>>
          ELSE <<>>) \o FlowsInto(def, node, Tail(order))

\* part_021 94-120: per node, the flows from its dependencies, or a flow to
\* the end event when it has no dependencies
RECURSIVE DependencyFlows(_, _)
DependencyFlows(def, nodes) ==
    IF nodes = <<>> THEN <<>>
    ELSE (IF Head(nodes).dependsOn # {}
          THEN FlowsInto(def, Head(nodes), NameOrder)
          ELSE <<SequenceFlow(Head(nodes).id, EndEventId)>>)
         \o DependencyFlows(def, Tail(nodes))

\* part_021 122-136: a flow to the end event from each node without
\* dependents
RECURSIVE EndFlows(_, _)
EndFlows(def, nodes) ==
    IF nodes = <<>> THEN <<>>
    ELSE (IF NextNodeIndices(def, Head(nodes).id) = {}
          THEN <<SequenceFlow(Head(nodes).id, EndEventId)>>
          ELSE <<>>) \o EndFlows(def, Tail(nodes))

\* part_021 26-147
pipelineDefinitionToBpmn(def) ==
    LET entryNodeIds == IF def.hasEntryNodes THEN def.entryNodes
                        ELSE EntryIdsOf(def.nodes)
    IN BpmnValue(<<BpmnElement(StartEventId, "bpmn:StartEvent")>>
                 \o [k \in 1..Len(def.nodes) |->
                        createBpmnElementFromNode(def.nodes[k])]
                 \o <<BpmnElement(EndEventId, "bpmn:EndEvent")>>,
                 StartFlows(def, entryNodeIds)
                 \o DependencyFlows(def, def.nodes)
                 \o EndFlows(def, def.nodes))

\* part_018 152-175: mapBpmnTypeToNodeType, "none" for null
mapBpmnTypeToNodeType(bpmnType) ==
    CASE bpmnType \in {"bpmn:Task", "bpmn:ServiceTask", "bpmn:UserTask",
                       "bpmn:ScriptTask"} -> "task"
      [] bpmnType = "bpmn:ExclusiveGateway" -> "choice"
      [] bpmnType \in {"bpmn:ParallelGateway", "bpmn:InclusiveGateway"}
            -> "parallel"
      [] OTHER -> "none"

\* elementMap.get(id).$type, "none" without such an element
ElementType(bpmn, id) ==
    IF \E k \in 1..Len(bpmn.elements) : bpmn.elements[k].id = id
    THEN bpmn.elements[CHOOSE k \in 1..Len(bpmn.elements) :
                          bpmn.elements[k].id = id].type
    ELSE "none"

\* part_018 71-92: dependents.get(id)
Dependents(bpmn, id) ==
    {bpmn.flows[k].sourceRef :
        k \in {i \in 1..Len(bpmn.flows) : bpmn.flows[i].targetRef = id}}

\* part_018 112-117: the dependencies kept for a node
KeptDependencies(bpmn, id) ==
    {depId \in Dependents(bpmn, id) :
        /\ ElementType(bpmn, depId) # "none"
        /\ ElementType(bpmn, depId) # "bpmn:StartEvent"}

\* part_018 94-130: a node per element that is no start event, no end event
\* and has a mappable type
RECURSIVE ImportedBpmnNodes(_, _)
ImportedBpmnNodes(bpmn, elements) ==
    IF elements = <<>> THEN <<>>
    ELSE (IF \/ Head(elements).type \in {"bpmn:StartEvent", "bpmn:EndEvent"}
             \/ mapBpmnTypeToNodeType(Head(elements).type) = "none"
          THEN <<>>
          ELSE <<[id |-> Head(elements).id,
                  type |-> mapBpmnTypeToNodeType(Head(elements).type),
                  dependsOn |-> KeptDependencies(bpmn, Head(elements).id)]>>)
         \o ImportedBpmnNodes(bpmn, Tail(elements))

\* part_018 32-147; the entry nodes of lines 132-141 are the nodes left
\* without dependencies, as no start event is kept among them
bpmnToPipelineDefinition(bpmn) ==
    LET nodes == ImportedBpmnNodes(bpmn, bpmn.elements)
    IN DefValue(nodes, EntryIdsOf(nodes))

\* pipelineDefinitionToBpmn(def) is called on the definition at hand
BpmnExport ==
    /\ converted # <<>> /\ Len(converted) <= MaxConversions
    /\ LastConverted.kind = "def"
    /\ converted' = Append(converted, pipelineDefinitionToBpmn(LastConverted))
    /\ UNCHANGED <<registry, calls>>
    /\ UNCHANGED <<inputVars, hybridVars, target, stack, ret, attempts,
                   runDef, hooksOn, pc, runVars, monitorVars>>
    /\ UNCHANGED <<planDef, metaByNodeId, cpPc, longestPath, longestPathKeys,
                   processed, queue, criticalPath, config, executionHint,
                   plan>>

\* bpmnToPipelineDefinition(bpmnXml) is called on the document at hand
BpmnImport ==
    /\ converted # <<>> /\ Len(converted) <= MaxConversions
    /\ LastConverted.kind = "bpmn"
    /\ converted' = Append(converted, bpmnToPipelineDefinition(LastConverted))
    /\ UNCHANGED <<registry, calls>>
    /\ UNCHANGED <<inputVars, hybridVars, target, stack, ret, attempts,
                   runDef, hooksOn, pc, runVars, monitorVars>>
    /\ UNCHANGED <<planDef, metaByNodeId, cpPc, longestPath, longestPathKeys,
                   processed, queue, criticalPath, config, executionHint,
                   plan>>

\* the definitions exported: ids "a", "b", ... in order, dependencies on
\* other nodes of the definition, entryNodes absent or naming one node
BpmnNodesAt(k, n) ==
    {[id |-> NameOrder[k], type |-> t, dependsOn |-> d] :
        t \in {"task", "pass", "choice", "parallel"},
        d \in SUBSET ({NameOrder[j] : j \in 1..n} \ {NameOrder[k]})}

BpmnDefinitions ==
    UNION {{DefValue(nodes, entryNodes) :
               nodes \in {q \in [1..n -> UNION {BpmnNodesAt(k, n) : k \in 1..n}] :
                             \A k \in 1..n : q[k].id = NameOrder[k]},
               entryNodes \in {<<>>} \cup {<<NameOrder[k]>> : k \in 1..n}} :
             n \in 0..Len(NameOrder)}

\* the ids of the task, gateway and other elements of the documents
\* imported
BpmnElementIds == <<"a", "b">>

\* the types of these elements: two that become nodes and an intermediate
\* catch event, which mapBpmnTypeToNodeType does not map
BpmnElementTypes ==
    {"bpmn:ServiceTask", "bpmn:ExclusiveGateway",
     "bpmn:IntermediateCatchEvent"}

BpmnElementArrays ==
    {starts \o inner \o ends :
        starts \in {<<>>, <<BpmnElement(StartEventId, "bpmn:StartEvent")>>},
        inner \in UNION {{q \in [1..n -> [id : Range(BpmnElementIds),
                                          type : BpmnElementTypes]] :
                             \A k \in 1..n : q[k].id = BpmnElementIds[k]} :
                           n \in 0..Len(BpmnElementIds)},
        ends \in {<<>>, <<BpmnElement(EndEventId, "bpmn:EndEvent")>>}}

\* the sequence flows of a document, each between two of its elements, in
\* some order
RECURSIVE FlowsOf(_)
FlowsOf(pairs) ==
    IF pairs = {} THEN <<>>
    ELSE LET p == CHOOSE q \in pairs : TRUE
         IN <<SequenceFlow(p[1], p[2])>> \o FlowsOf(pairs \ {p})

BpmnDocuments ==
    UNION {{BpmnValue(elements, FlowsOf(pairs)) :
               pairs \in {f \in SUBSET ({elements[k].id : k \in 1..Len(elements)}
                                        \X {elements[k].id : k \in 1..Len(elements)}) :
                             Cardinality(f) <= Len(BpmnElementIds)}} :
             elements \in BpmnElementArrays}

BpmnInit ==
    /\ RunnerIdle
    /\ planDef = NoPlanDef
    /\ metaByNodeId = <<>>
    /\ cpPc = "idle"
    /\ longestPath = <<>>
    /\ longestPathKeys = <<>>
    /\ processed = {}
    /\ queue = <<>>
    /\ criticalPath = NoCriticalPath
    /\ config = NoConfig
    /\ executionHint = <<>>
    /\ plan = NoPlan
    /\ registry = <<>>
    /\ calls = <<>>
    /\ converted \in {<<b>> : b \in BpmnDocuments}
                     \cup {<<d>> : d \in BpmnDefinitions}

BpmnNext ==
    \/ BpmnExport
    \/ BpmnImport

BpmnSpec == BpmnInit /\ [][BpmnNext]_vars


(* --------------------------- derived state ---------------------------- *)
\* run() has settled
Settled == stack = <<>> /\ ret.kind # "none"
Returned == stack = <<>> /\ ret.kind = "result"
Threw == stack = <<>> /\ ret.kind = "error"

TypeOK ==
    /\ definition \in Definitions
    /\ pc \in {"idle", "start", "levelStart", "launch", "await", "finish",
               "done", "threw"}
    /\ stepState \in [Ctors -> {"idle", "started", "hookThrew", "running",
                                "fulfilled", "rejected"}]
    /\ stoppers \subseteq Ctors /\ raised \subseteq Ctors
    /\ ret.kind \in {"none", "result", "error"}
    /\ elapsed \in 0..MaxElapsed

(* ====================== properties of the runner ====================== *)
FinishedStates == {"fulfilled", "rejected"}

\* the index of the level that holds ctor c, 0 if none does
LevelIndex(ls, c) ==
    IF \E k \in 1..Len(ls) : c \in Range(ls[k])
    THEN CHOOSE k \in 1..Len(ls) : c \in Range(ls[k])
    ELSE 0

\* runPipeline is past its call of buildLevels
PastBuild == pc \notin {"idle", "start"}

\* C1: no step of a later level has been started (constructed, given its
\* onStepStart hook, or executed) while a step of an earlier level has not
\* finished, successfully or not.
C1_LevelBarrier ==
    PastBuild =>
        \A i, j \in 1..Len(levels) :
            i < j =>
                \A u \in Range(levels[i]), v \in Range(levels[j]) :
                    stepState[v] # "idle" => stepState[u] \in FinishedStates

\* a step of the second level is executing after a first level of two steps,
\* one of which failed
C1_Witness ==
    /\ PastBuild /\ Len(levels) >= 2 /\ Len(levels[1]) >= 2
    /\ \E v \in Range(levels[2]) : stepState[v] = "running"
    /\ \E u \in Range(levels[1]) : stepState[u] = "fulfilled"

\* the steps of the level that was awaited last
LastCompleted == completedLevels[Len(completedLevels)]

\* C2: once a level is fully awaited the run ends with status error if a
\* step of it failed, else with status stopped if ctx.stopPipeline is set,
\* else it goes on to the next level; and no step of a level after a failing
\* or stopping level is ever started.
C2_TerminalConditions ==
    /\ (pc = "done" /\ completedLevels # <<>>) =>
          LET failed == \E u \in Range(LastCompleted) : stepState[u] = "rejected"
          IN /\ failed => ret.status = "error"
             /\ (~failed /\ ctx.stopPipeline) => ret.status = "stopped"
             /\ (~failed /\ ~ctx.stopPipeline) =>
                   /\ ret.status = "success"
                   /\ completedLevels = levels
    /\ PastBuild =>
          \A i, j \in 1..Len(levels) :
              (/\ i < j
               /\ \E u \in Range(levels[i]) :
                     stepState[u] = "rejected" \/ u \in stoppers)
              => \A v \in Range(levels[j]) : stepState[v] = "idle"

\* a run ended with status error by a level in which one step failed and
\* another set stopPipeline, with a level left unstarted
C2_Witness ==
    /\ pc = "done" /\ ret.status = "error"
    /\ Len(completedLevels) < Len(levels)
    /\ \E u, w \in Range(LastCompleted) :
          /\ u # w /\ stepState[u] = "rejected"
          /\ w \in stoppers /\ stepState[w] = "fulfilled"

\* C3: for every definition buildLevels accepts, each dependency of a step
\* is placed in a strictly earlier level than the step.
C3_EdgesGoForward ==
    (PastBuild /\ levels # <<>>) =>
        \A i \in 1..Len(runDef) :
            \A d \in runDef[i].dependsOn :
                /\ LevelIndex(levels, d) > 0
                /\ LevelIndex(levels, d) < LevelIndex(levels, runDef[i].ctor)

\* three levels were built for a step that depends on the two other steps
C3_Witness ==
    /\ PastBuild /\ Len(levels) = 3
    /\ \E i \in 1..Len(runDef) : Cardinality(runDef[i].dependsOn) = 2

\* I1: no ctor is registered twice
I1(steps) ==
    \A i, j \in 1..Len(steps) : i # j => steps[i].ctor # steps[j].ctor

\* I2: every dependency is a registered ctor
I2(steps) ==
    \A i \in 1..Len(steps) :
        \A d \in steps[i].dependsOn : \E j \in 1..Len(steps) : steps[j].ctor = d

\* the ctors that c depends on through at most n edges
RECURSIVE Ancestors(_, _, _)
Ancestors(steps, c, n) ==
    IF n = 0 THEN {}
    ELSE LET direct == UNION {steps[i].dependsOn :
                                i \in {k \in 1..Len(steps) : steps[k].ctor = c}}
         IN direct \cup UNION {Ancestors(steps, d, n - 1) : d \in direct}

\* I3: no ctor depends on itself, directly or through other steps
I3(steps) == \A c \in Ctors : c \notin Ancestors(steps, c, Cardinality(Ctors))

BuildErrors == {"Duplicate step constructor registered",
                "Step dependency not registered",
                "Cyclic or unsatisfied dependencies detected"}

\* the call of buildLevels inside the current runPipeline threw
BuildFailed == pc = "threw" /\ ret.error \in BuildErrors

\* C4: buildLevels returns normally exactly for the definitions that satisfy
\* I1, I2 and I3; for every other definition it throws and returns no levels.
C4_AcceptsExactlyValid ==
    PastBuild =>
        /\ ~BuildFailed <=> (I1(runDef) /\ I2(runDef) /\ I3(runDef))
        /\ BuildFailed => levels = <<>>

\* a definition of three distinct registered steps whose dependencies form a
\* cycle without a self-dependency was rejected
C4_Witness ==
    /\ BuildFailed /\ Len(runDef) = 3
    /\ I1(runDef) /\ I2(runDef)
    /\ \A i \in 1..Len(runDef) : runDef[i].ctor \notin runDef[i].dependsOn

\* runPipeline has settled: it returned a result or threw
RunSettled == pc \in {"done", "threw"}

\* C5 as claimed: the run returns status stopped exactly when some step set
\* stopPipeline while no step had raised before.
C5_Original == pc = "done" => (ret.status = "stopped" <=> cleanStop)

\* C5: the run returns status stopped exactly when some step set
\* stopPipeline and no step raised during the run, before or after that.
C5_StoppedIff ==
    pc = "done" => (ret.status = "stopped" <=> (stoppers # {} /\ raised = {}))

\* a run returned status stopped, a later level left unstarted
C5_Witness ==
    /\ pc = "done" /\ ret.status = "stopped"
    /\ Len(completedLevels) < Len(levels)
    /\ Len(executedSteps) >= 2

Invalid(steps) == ~(I1(steps) /\ I2(steps) /\ I3(steps))

\* C7 as claimed: when buildLevels fails, the run yields a result with status
\* error and no executed steps.
C7_Original ==
    (RunSettled /\ Invalid(runDef)) =>
        /\ pc = "done" /\ ret.kind = "result"
        /\ ret.status = "error" /\ ret.executedSteps = <<>>

\* C7: when buildLevels fails, runPipeline yields no result: the error of
\* buildLevels leaves it as an exception, and no step was started.
C7_BuildFailurePropagates ==
    (RunSettled /\ Invalid(runDef)) =>
        /\ pc = "threw" /\ ret.kind = "error"
        /\ ret.error \in BuildErrors
        /\ executedSteps = <<>> /\ errors = <<>> /\ completedLevels = <<>>
        /\ \A c \in Ctors : stepState[c] = "idle"

\* runPipeline threw for a definition with an unregistered dependency
C7_Witness ==
    /\ pc = "threw" /\ Invalid(runDef) /\ ~I2(runDef) /\ I1(runDef)
    /\ Len(runDef) >= 2

\* C8 as claimed: a budget-exhausted failure thrown by a timeout hook ends
\* the run with a result of status error that holds an errors entry.
C8_Original ==
    (RunSettled /\ hookThrew) =>
        /\ pc = "done" /\ ret.kind = "result"
        /\ ret.status = "error" /\ Len(ret.errors) > 0

\* C8: a budget-exhausted failure thrown by a timeout hook is not captured:
\* it leaves runPipeline as an exception of kind LambdaTimeoutError, no
\* errors entry is made for it, no later level is started, and the fallback
\* chain never hands that kind back from its lambda stage.
C8_BudgetExhaustedPropagates ==
    /\ (RunSettled /\ hookThrew) =>
          /\ pc = "threw" /\ ret.kind = "error"
          /\ ret.error = "LambdaTimeoutError"
          /\ Range(errors) = raised
          /\ \A j \in 1..Len(levels) :
                j > levelIdx => \A v \in Range(levels[j]) : stepState[v] = "idle"
    /\ \A k \in 1..Len(attempts) :
          (attempts[k].mode = "lambda" /\ attempts[k].error = "LambdaTimeoutError")
              => Len(attempts) > k

\* onStepStart threw in the second level, after the first level had run
C8_Witness ==
    /\ pc = "threw" /\ hookThrew /\ levelIdx = 2
    /\ Len(completedLevels) = 1
    /\ \E c \in Ctors : stepState[c] = "hookThrew"

AttemptFailed(a) == a.error \notin {"pending", "none"}

\* C9 as claimed: the chain moves on to the next adapter only after a
\* budget-exhausted failure of the adapter before it.
C9_Original ==
    \A k \in 1..Len(attempts) :
        k < Len(attempts) => attempts[k].error = "LambdaTimeoutError"

\* C9: the chain moves from the lambda adapter to the hybrid adapter only
\* after a LambdaTimeoutError, any other lambda error going to the caller
\* with no further adapter tried; every error of the hybrid adapter, of
\* whatever kind, starts the fargate adapter; a fargate error goes to the
\* caller.
C9_FallbackRouting ==
    /\ \A k \in 1..Len(attempts) :
          k < Len(attempts) =>
              /\ AttemptFailed(attempts[k])
              /\ attempts[k].mode = "lambda"
                    => attempts[k].error = "LambdaTimeoutError"
    /\ (executionMode = "auto" /\ Settled) =>
          LET last == attempts[Len(attempts)]
          IN /\ last.error = (IF ret.kind = "error" THEN ret.error ELSE "none")
             /\ (last.mode = "lambda" /\ AttemptFailed(last))
                    => last.error # "LambdaTimeoutError"
             /\ last.mode = "hybrid" => ~AttemptFailed(last)

\* the hybrid adapter failed with an error other than LambdaTimeoutError and
\* the fargate adapter was started
C9_Witness ==
    /\ Len(attempts) = 3
    /\ attempts[2].mode = "hybrid"
    /\ AttemptFailed(attempts[2])
    /\ attempts[2].error # "LambdaTimeoutError"

ChainOrder == <<"lambda", "hybrid", "fargate">>

\* C10: the chain invokes lambda, hybrid, fargate in this order, each at
\* most once and each only after the adapter before it has failed, so a run
\* makes at most three attempts.
C10_ChainOrder ==
    /\ Len(attempts) <= 3
    /\ \A k \in 1..Len(attempts) :
          /\ attempts[k].mode = ChainOrder[k]
          /\ k < Len(attempts) => AttemptFailed(attempts[k])
    /\ executionMode # "auto" => attempts = <<>>

\* all three adapters were tried and the run returned the fargate result
C10_Witness ==
    /\ Returned /\ Len(attempts) = 3
    /\ attempts[3].mode = "fargate" /\ attempts[3].error = "none"
    /\ isFargate = "yes"

\* the step-functions adapter has been called and has not returned yet
SuffixRunning == \E k \in 1..Len(stack) : stack[k] = "sfn.call"

\* C11: the hybrid adapter starts the step-functions suffix only after the
\* lambda prefix returned a result with status success and no runPipeline is
\* in progress, and gives it the prefix result's target as source; after a
\* prefix result with status error or stopped the suffix is never started
\* and that result is what the hybrid adapter returns, unchanged.
C11_SuffixAfterPrefixSuccess ==
    /\ (SuffixRunning \/ suffixSource # "none") =>
          /\ prefixResult.kind = "result"
          /\ prefixResult.status = "success"
          /\ suffixSource = prefixResult.context.target
          /\ suffixSource = Options.target
    /\ SuffixRunning => pc = "idle"
    /\ (prefixResult.kind = "result" /\ prefixResult.status # "success") =>
          /\ suffixSource = "none"
          /\ ~SuffixRunning
          /\ ret = prefixResult

\* the suffix is being started after a prefix that executed a step
C11_Witness ==
    /\ Top = "sfn.call"
    /\ prefixResult.status = "success"
    /\ Len(prefixResult.executedSteps) >= 1
    /\ suffixSource = "target"

\* the number of steps in a list of levels
RECURSIVE StepCount(_)
StepCount(ls) == IF ls = <<>> THEN 0 ELSE Len(Head(ls)) + StepCount(Tail(ls))

\* the steps that belong to a list of levels
LevelMembers(ls) == UNION {Range(ls[k]) : k \in 1..Len(ls)}

C13_CompletedLevelsPrefix ==
    pc = "done" =>
        LET n == Len(ret.completedLevels)
        IN /\ n <= Len(buildLevels(runDef).levels)
           /\ ret.completedLevels = SubSeq(buildLevels(runDef).levels, 1, n)
           /\ \A k \in 1..Len(levels) :
                 (k <= n) <=> (\E c \in Range(levels[k]) : stepState[c] # "idle")
           /\ \A k \in 1..Len(levels) :
                 (\E c \in Range(levels[k]) : c \in raised \cup stoppers)
                     => k = n
           /\ (n < Len(levels)) =>
                 \E c \in Range(levels[n]) : c \in raised \cup stoppers

\* a run stopped in its second level of three: two levels are recorded
C13_Witness ==
    /\ pc = "done" /\ ret.status = "stopped"
    /\ Len(levels) = 3 /\ Len(ret.completedLevels) = 2

\* the ctors registered by a definition
CtorsOf(steps) == {steps[i].ctor : i \in 1..Len(steps)}

\* C14: a result of runPipeline with status success holds every step of the
\* definition exactly once in executedSteps, no errors entry, and all the
\* levels of buildLevels(definition) in completedLevels.
C14_SuccessRunsAll ==
    (pc = "done" /\ ret.status = "success") =>
        /\ Len(ret.executedSteps) = Len(runDef)
        /\ Range(ret.executedSteps) = CtorsOf(runDef)
        /\ Cardinality(Range(ret.executedSteps)) = Len(ret.executedSteps)
        /\ ret.errors = <<>>
        /\ ret.completedLevels = buildLevels(runDef).levels
        /\ stoppers = {} /\ raised = {}

\* a successful run of three steps in two levels
C14_Witness ==
    /\ pc = "done" /\ ret.status = "success"
    /\ Len(runDef) = 3 /\ Len(ret.completedLevels) = 2

\* C15: no step is aborted: when runPipeline produces its result, every step
\* that was started, in the level that failed or stopped as in the levels
\* before it, has run to completion and is recorded in executedSteps or in
\* errors; a step that has entered execute leaves it only by returning or
\* throwing.
C15_NoAbort ==
    /\ pc \in {"finish", "done"} =>
          \A c \in Ctors :
              stepState[c] # "idle" =>
                  /\ stepState[c] \in FinishedStates
                  /\ stepState[c] = "fulfilled" <=> c \in Range(executedSteps)
                  /\ stepState[c] = "rejected" <=> c \in Range(errors)
    /\ \A c \in Range(executedSteps) \cup Range(errors) :
          stepState[c] \in FinishedStates

\* a result for a level in which a step set stopPipeline and returned after
\* another step of the level had raised
C15_Witness ==
    /\ pc = "done" /\ Len(completedLevels) = 1
    /\ raised # {} /\ stoppers # {} /\ ~cleanStop
    /\ \E c \in stoppers : stepState[c] = "fulfilled"

\* the steps of the level being run, other than c, that entered execute
\* before this point
PeersBegun(c) ==
    {p \in Range(CurrentLevel) \ {c} :
        stepState[p] \in {"running", "fulfilled", "rejected"}}

\* the steps of the levels before the one being run
EarlierSteps == UNION {Range(levels[k]) : k \in 1..(levelIdx - 1)}

\* step c enters execute in this step of the run
Begins(c) == stepState[c] = "started" /\ stepState'[c] = "running"

\* C16 as claimed: what a step reads from the shared context when it enters
\* execute holds no write of another step of its own level.
C16_Original ==
    [][\A c \in Ctors : Begins(c) => PeersBegun(c) \cap target = {}]_vars

\* C16: the runner orders writes across levels only: what a step reads from
\* the shared context when it enters execute holds the writes of every step
\* of every earlier level, and, the context being shared by reference with
\* no isolation, also those of the steps of its own level that entered
\* execute before it.
C16_WritesCrossLevels ==
    [][\A c \in Ctors :
          Begins(c) => /\ EarlierSteps \subseteq target
                       /\ PeersBegun(c) \subseteq target]_vars

\* a step of the second level is executing and the target holds the writes
\* of the two steps of the first level and its own
C16_Witness ==
    /\ RunActive /\ pc = "await" /\ levelIdx = 2
    /\ Len(levels[1]) = 2
    /\ \E c \in Range(levels[2]) : stepState[c] = "running"
    /\ target = Ctors

\* the warning threshold of the monitor, in hundredths of a millisecond
WarningThreshold100 == timeoutMs * DefaultThresholdPercent

\* C17 as claimed: in a run whose elapsed time exceeds the warning threshold
\* the warning has fired exactly once, and it never fires before that time.
C17_Original ==
    /\ (hooksOn /\ RunSettled /\ elapsed * 100 > WarningThreshold100)
          => warnings = 1
    /\ warnings >= 1 => elapsed * 100 >= WarningThreshold100

\* C17: the warning fires at most once and never before the threshold has
\* elapsed; it fires in the first call of check() made at or after the
\* threshold, and the only calls of check() are those of the timeout hooks
\* before a level and before a step: the monitor has fired exactly when its
\* last check saw the threshold reached, whatever time has passed since.
C17_WarningOnCheck ==
    /\ warnings \in {0, 1}
    /\ warningEmitted <=> warnings = 1
    /\ warnings = 1 <=> lastCheckAt * 100 >= WarningThreshold100
    /\ warnings = 1 => elapsed * 100 >= WarningThreshold100
    /\ lastCheckAt <= elapsed

\* a monitored run returned success after the warning had fired in one hook
\* and later hooks had called check() again
C17_Witness ==
    /\ hooksOn /\ pc = "done" /\ ret.status = "success"
    /\ warnings = 1 /\ lastCheckAt >= 800
    /\ Len(executedSteps) >= 2

\* the hook of a level or of a step runs in this step of the run
LevelHookRuns == hooksOn /\ pc = "levelStart" /\ pc' # "levelStart"
StepHookRuns(c) == hooksOn /\ stepState[c] = "idle" /\ stepState'[c] # "idle"

\* C18: under the timeout hooks, onLevelStart and onStepStart throw exactly
\* when the remaining budget they read is at or below 100 ms; the execute of
\* a step is entered only after its onStepStart returned, never after it
\* threw.
C18_NoExecuteWhenExhausted ==
    [][/\ LevelHookRuns =>
             (pc' = "threw" <=> timeoutMs - elapsed <= ExhaustedThresholdMs)
       /\ \A c \in Ctors :
             /\ StepHookRuns(c) =>
                   (stepState'[c] = "hookThrew"
                       <=> timeoutMs - elapsed <= ExhaustedThresholdMs)
             /\ (stepState[c] # "running" /\ stepState'[c] = "running")
                   => stepState[c] = "started"
             /\ stepState[c] = "hookThrew"
                   => stepState'[c] \in {"hookThrew", "idle"}]_vars

\* with exactly 100 ms left the hook of one step threw, after the hook of
\* another step of the level had returned with more time left
C18_Witness ==
    /\ hooksOn /\ elapsed = timeoutMs - ExhaustedThresholdMs
    /\ \E c, d \in Ctors :
          /\ stepState[c] = "hookThrew"
          /\ stepState[d] \in {"started", "running"}

(* ===================== properties of the planner ====================== *)
\* the ids of the nodes of the definition, and the dependencies of one
PlanNodeIds == {planDef.nodes[j].id : j \in 1..Len(planDef.nodes)}
DependsOnOf(id) ==
    UNION {planDef.nodes[j].dependsOn :
             j \in {i \in 1..Len(planDef.nodes) : planDef.nodes[i].id = id}}

\* the ids a node depends on through at most n edges
RECURSIVE PlanAncestors(_, _)
PlanAncestors(id, n) ==
    IF n = 0 THEN {}
    ELSE DependsOnOf(id)
            \cup UNION {PlanAncestors(d, n - 1) : d \in DependsOnOf(id)}

\* the definition is a DAG
PlanAcyclic ==
    \A id \in PlanNodeIds : id \notin PlanAncestors(id, Cardinality(NodeIds))

\* the paths of the definition: each node depends on the one before it
PlanPaths ==
    {q \in DistinctSeqs(PlanNodeIds, Cardinality(NodeIds)) :
        /\ Len(q) >= 1
        /\ \A i \in 1..(Len(q) - 1) : q[i] \in DependsOnOf(q[i + 1])}

\* the paths from an entry node to a node that no node depends on
EntryToSinkPaths ==
    {q \in PlanPaths : /\ q[1] \in Range(EntryNodes)
                       /\ q[Len(q)] \in Range(ExitNodes)}

RECURSIVE PessimisticSum(_)
PessimisticSum(q) ==
    IF q = <<>> THEN 0
    ELSE NodeTiming(Head(q)).pessimisticMs + PessimisticSum(Tail(q))

RECURSIVE OptimisticSum(_)
OptimisticSum(q) ==
    IF q = <<>> THEN 0
    ELSE NodeTiming(Head(q)).optimisticMs + OptimisticSum(Tail(q))

\* computeCriticalPath returned for a DAG
CriticalPathReturned == cpPc = "done" /\ PlanAcyclic

\* C19: when computeCriticalPath returns for a DAG, nodeIds is a path of the
\* definition from an entry node to a node without dependents, the reported
\* pessimistic time is the sum over its nodes, and no path from an entry
\* node to a node without dependents has a greater pessimistic sum.
C19_Original ==
    CriticalPathReturned =>
        /\ criticalPath.nodeIds \in EntryToSinkPaths
        /\ criticalPath.pessimisticMs = PessimisticSum(criticalPath.nodeIds)
        /\ \A q \in EntryToSinkPaths :
              PessimisticSum(q) <= criticalPath.pessimisticMs

\* the entry-to-sink paths whose pessimistic sum is that of the returned path
TiedPaths ==
    {q \in EntryToSinkPaths :
        PessimisticSum(q) = PessimisticSum(criticalPath.nodeIds)}

\* C20: when the returned path is one of several entry-to-sink paths of
\* greatest pessimistic sum, it has the greatest optimistic sum among them,
\* and among those of greatest optimistic sum it ends at the smallest id.
C20_Original ==
    (/\ CriticalPathReturned
     /\ criticalPath.nodeIds \in EntryToSinkPaths
     /\ \A q \in EntryToSinkPaths :
           PessimisticSum(q) <= PessimisticSum(criticalPath.nodeIds))
    => \A q \in TiedPaths :
          /\ OptimisticSum(q) <= OptimisticSum(criticalPath.nodeIds)
          /\ OptimisticSum(q) = OptimisticSum(criticalPath.nodeIds)
                => criticalPath.nodeIds[Len(criticalPath.nodeIds)]
                      <= q[Len(q)]

(* ----------------------- planExecution: claims ------------------------ *)
\* planExecution returned a plan
PlanReturned == plan.kind = "result"

\* some node of the definition carries the hint "step-functions-only"
SomeNodeOrchestratedOnly ==
    \E k \in 1..Len(planDef.nodes) :
        executionHint[planDef.nodes[k].id] = "step-functions-only"

\* budgetMs * (1 - safetyMargin), times 100, with safetyMargin 0.1 by default
SafeBudgetX100 ==
    config.lambdaMaxMs
        * (100 - (IF config.hasSafetyMargin THEN config.safetyMarginPct
                  ELSE 10))

\* C21: a returned plan has the mode step-functions if and only if some node
\* is step-functions-only or the pessimistic time of the critical path is at
\* least the safe budget; the hint decides whatever the timings are
C21_OrchestratedIff ==
    PlanReturned =>
        (plan.mode = "step-functions"
            <=> \/ SomeNodeOrchestratedOnly
                \/ criticalPath.pessimisticMs * 100 >= SafeBudgetX100)

\* no hint, and the critical path takes exactly the safe budget
C21_Witness ==
    /\ PlanReturned
    /\ plan.mode = "step-functions"
    /\ ~SomeNodeOrchestratedOnly
    /\ criticalPath.pessimisticMs * 100 = SafeBudgetX100

\* the returned plan is a hybrid plan
HybridPlanned == PlanReturned /\ plan.mode = "hybrid"

InlineSet == Range(plan.lambdaNodes)
OrchestratedSet == Range(plan.stepFunctionsNodes)

\* C22: in a hybrid plan of a definition that is a DAG, lambdaNodes and
\* stepFunctionsNodes are both non-empty, share no id, and together hold
\* exactly the ids of def.nodes
C22_HybridPartition ==
    HybridPlanned /\ PlanAcyclic =>
        /\ InlineSet # {}
        /\ OrchestratedSet # {}
        /\ InlineSet \cap OrchestratedSet = {}
        /\ InlineSet \cup OrchestratedSet = PlanNodeIds

\* a hybrid plan of a definition with a node off the critical path
C22_Witness ==
    /\ HybridPlanned
    /\ PlanAcyclic
    /\ PlanNodeIds \ Range(criticalPath.nodeIds) # {}
    /\ Cardinality(InlineSet) + Cardinality(OrchestratedSet) = 3

\* the first n nodes of the critical path
CriticalPrefix(n) == SubSeq(criticalPath.nodeIds, 1, n)

\* the lengths of the prefixes of the critical path whose pessimistic time,
\* as computeCriticalPath adds it up, stays within 0.7 of the safe budget
FittingPrefixLengths ==
    {n \in 0..Len(criticalPath.nodeIds) :
        PessimisticSum(CriticalPrefix(n)) * 1000 <= SafeBudgetX100 * 7}

LongestFittingPrefix ==
    CriticalPrefix(CHOOSE n \in FittingPrefixLengths :
                      \A m \in FittingPrefixLengths : m <= n)

\* C23: in a hybrid plan the nodes of the critical path among lambdaNodes are
\* the longest prefix of the critical path whose pessimistic time (p99, by
\* default 2 x p50, p50 by default 1000) stays within 0.7 of the safe budget,
\* and the other nodes of the critical path are among stepFunctionsNodes
C23_Original ==
    HybridPlanned /\ PlanAcyclic =>
        /\ InlineSet \cap Range(criticalPath.nodeIds)
               = Range(LongestFittingPrefix)
        /\ Range(criticalPath.nodeIds) \ Range(LongestFittingPrefix)
               \subseteq OrchestratedSet

\* the nodes of the definition that are not on the critical path
OffPathNodes == PlanNodeIds \ Range(criticalPath.nodeIds)

\* C24: in a hybrid plan a node that is not on the critical path is among
\* lambdaNodes if and only if every node it depends on is among lambdaNodes
\* of the plan; otherwise it is among stepFunctionsNodes
C24_Original ==
    HybridPlanned /\ PlanAcyclic =>
        \A id \in OffPathNodes :
            /\ id \in InlineSet <=> DependsOnOf(id) \subseteq InlineSet
            /\ id \notin InlineSet => id \in OrchestratedSet

(* ----------------------- registry converters: claims ------------------ *)
\* the input of the conversions, and what the second conversion returned
ConvertedIn == converted[1]
ConvertedOut == converted[3]

\* the constructors of a RegisteredStep[] and the dependencies of one
StepTokens(steps) == {steps[i].ctor : i \in 1..Len(steps)}
TokenDependencies(steps, ctor) ==
    UNION {steps[i].dependsOn : i \in {j \in 1..Len(steps) :
                                          steps[j].ctor = ctor}}

\* steps -> definition -> steps was followed on steps whose constructors are
\* registered and whose dependencies are steps of the array
StepsRoundTrip ==
    /\ Len(converted) = 3
    /\ ConvertedIn.kind = "steps"
    /\ \A c \in StepTokens(ConvertedIn.steps) :
          /\ \E i \in 1..Len(registry) : registry[i].ctor = c
          /\ TokenDependencies(ConvertedIn.steps, c)
                \subseteq StepTokens(ConvertedIn.steps)

\* C25: converting registered steps to a PipelineDefinition and back gives
\* steps with the same constructors and, for each constructor, the same set
\* of dependencies
C25_StepsRoundTrip ==
    StepsRoundTrip =>
        /\ ConvertedOut.kind = "steps"
        /\ StepTokens(ConvertedOut.steps) = StepTokens(ConvertedIn.steps)
        /\ \A c \in StepTokens(ConvertedIn.steps) :
              TokenDependencies(ConvertedOut.steps, c)
                  = TokenDependencies(ConvertedIn.steps, c)

\* a round trip of two steps or more with a dependency, through a registry
\* that holds one of the constructors under two ids
C25_Witness ==
    /\ StepsRoundTrip
    /\ Len(ConvertedIn.steps) >= 2
    /\ \E c \in StepTokens(ConvertedIn.steps) :
          /\ TokenDependencies(ConvertedIn.steps, c) # {}
          /\ \E i, j \in 1..Len(registry) :
                i # j /\ registry[i].ctor = c /\ registry[j].ctor = c

\* the ids of the nodes of a definition, and the node of an id
NodeIdsOf(def) == {def.nodes[k].id : k \in 1..Len(def.nodes)}
NodeOf(def, id) ==
    def.nodes[CHOOSE k \in 1..Len(def.nodes) : def.nodes[k].id = id]

\* definition -> steps -> definition was followed on a definition whose
\* stepRefs are registered
DefinitionRoundTrip ==
    /\ Len(converted) = 3
    /\ ConvertedIn.kind = "def"
    /\ \A k \in 1..Len(ConvertedIn.nodes) :
          \E i \in 1..Len(registry) :
              registry[i].id = ConvertedIn.nodes[k].stepRef

\* the two definitions have the same node ids and, per node, the same
\* stepRef and the same dependsOn set
SameNodes(d1, d2) ==
    /\ NodeIdsOf(d1) = NodeIdsOf(d2)
    /\ \A id \in NodeIdsOf(d1) :
          /\ NodeOf(d1, id).stepRef = NodeOf(d2, id).stepRef
          /\ NodeOf(d1, id).dependsOn = NodeOf(d2, id).dependsOn

\* C26 as stated: converting a definition of registered tasks to steps and
\* back gives the same node ids, stepRefs and dependsOn sets
C26_Original ==
    DefinitionRoundTrip =>
        /\ ConvertedOut.kind = "def"
        /\ SameNodes(ConvertedIn, ConvertedOut)

\* the constructor a registered stepRef stands for, and the id under which a
\* constructor was registered last
CtorOfRef(stepRef) ==
    registry[CHOOSE i \in 1..Len(registry) : registry[i].id = stepRef].ctor
LastIdOfCtor(ctor) ==
    LET entries == {i \in 1..Len(registry) : registry[i].ctor = ctor}
    IN registry[CHOOSE i \in entries : \A j \in entries : j <= i].id
RegistryNameOf(node) == LastIdOfCtor(CtorOfRef(node.stepRef))

\* the round trip of a definition whose dependencies are nodes of it and
\* whose nodes stand for different constructors
DistinctDefinitionRoundTrip ==
    /\ DefinitionRoundTrip
    /\ \A k \in 1..Len(ConvertedIn.nodes) :
          ConvertedIn.nodes[k].dependsOn \subseteq NodeIdsOf(ConvertedIn)
    /\ \A j, k \in 1..Len(ConvertedIn.nodes) :
          j # k => CtorOfRef(ConvertedIn.nodes[j].stepRef)
                     # CtorOfRef(ConvertedIn.nodes[k].stepRef)

\* C26: the round trip gives the nodes in the same order, each with id and
\* stepRef replaced by the id its constructor was registered under last and
\* with its dependencies renamed likewise; the definition comes back
\* unchanged exactly when each node's id and stepRef already are that id
C26_RenamedRoundTrip ==
    DistinctDefinitionRoundTrip =>
        /\ ConvertedOut.kind = "def"
        /\ Len(ConvertedOut.nodes) = Len(ConvertedIn.nodes)
        /\ \A k \in 1..Len(ConvertedIn.nodes) :
              /\ ConvertedOut.nodes[k].id = RegistryNameOf(ConvertedIn.nodes[k])
              /\ ConvertedOut.nodes[k].stepRef
                     = RegistryNameOf(ConvertedIn.nodes[k])
              /\ ConvertedOut.nodes[k].dependsOn
                     = {RegistryNameOf(NodeOf(ConvertedIn, d)) :
                           d \in ConvertedIn.nodes[k].dependsOn}
        /\ SameNodes(ConvertedIn, ConvertedOut)
              <=> \A k \in 1..Len(ConvertedIn.nodes) :
                     /\ ConvertedIn.nodes[k].id
                            = RegistryNameOf(ConvertedIn.nodes[k])
                     /\ ConvertedIn.nodes[k].stepRef
                            = RegistryNameOf(ConvertedIn.nodes[k])

\* a round trip of dependent nodes whose ids are not their stepRefs, through
\* a registry that holds one of the constructors under two ids
C26_Witness ==
    /\ DistinctDefinitionRoundTrip
    /\ Len(ConvertedIn.nodes) >= 2
    /\ \E k \in 1..Len(ConvertedIn.nodes) :
          /\ ConvertedIn.nodes[k].dependsOn # {}
          /\ ConvertedIn.nodes[k].id # ConvertedIn.nodes[k].stepRef
          /\ RegistryNameOf(ConvertedIn.nodes[k]) # ConvertedIn.nodes[k].stepRef
    /\ ~SameNodes(ConvertedIn, ConvertedOut)

\* the positions of the chain where a definition was exported to a state
\* machine and the machine imported again
AslRoundTrips ==
    {k \in 1..Len(converted) :
        /\ k + 2 <= Len(converted)
        /\ converted[k].kind = "def"
        /\ converted[k + 1].kind = "asl"
        /\ converted[k + 2].kind = "def"}

DependsOnById(def) ==
    {<<def.nodes[k].id, def.nodes[k].dependsOn>> : k \in 1..Len(def.nodes)}

\* C27 as stated: the state machine exported from N, imported again, has
\* the node ids of N, each with the dependsOn set it has in N
C27_Original ==
    \A k \in AslRoundTrips :
        DependsOnById(converted[k + 2]) = DependsOnById(converted[k])

\* the positions of the chain where a state machine was imported
AslImports ==
    {k \in 1..Len(converted) :
        /\ k + 1 <= Len(converted)
        /\ converted[k].kind = "asl"
        /\ converted[k + 1].kind = "def"}

\* one of s.Next, s.Choices[*].Next, s.Default, s.Branches[*].StartAt and
\* s.Catch[*].Next is the name t
TransitionNames(s, t) ==
    \/ s.Next = t
    \/ t \in s.Choices
    \/ s.Default = t
    \/ t \in s.Branches
    \/ t \in s.Catch

\* C30: in the definition imported from a state machine, the name of the
\* top-level state s is in the dependsOn of the node of the top-level state
\* t if and only if s points at t through its Next, a Choices rule, its
\* Default, a Branches StartAt or a Catch
C30_DependencyInference ==
    \A k \in AslImports :
        LET states == converted[k].States
            nodes == converted[k + 1].nodes
        IN /\ Len(nodes) = Len(states)
           /\ \A i \in 1..Len(states) :
                  /\ nodes[i].id = states[i].name
                  /\ \A j \in 1..Len(states) :
                         states[j].name \in nodes[i].dependsOn
                             <=> TransitionNames(states[j], states[i].name)
           /\ \A i \in 1..Len(nodes) :
                  nodes[i].dependsOn
                      \subseteq {states[j].name : j \in 1..Len(states)}

\* a machine was imported in which a state reaches another one through a
\* Catch alone, and a third name it points at is no state
C30_Witness ==
    \E k \in AslImports :
        LET states == converted[k].States
            nodes == converted[k + 1].nodes
        IN \E i, j \in 1..Len(states) :
               /\ i # j
               /\ states[i].name \in states[j].Catch
               /\ states[j].Next \notin {states[i].name, "none"}
               /\ states[j].Next \notin {states[n].name : n \in 1..Len(states)}
               /\ states[j].name \in nodes[i].dependsOn

\* the positions of the chain where a definition was exported to a process
BpmnExports ==
    {k \in 1..Len(converted) :
        /\ k + 1 <= Len(converted)
        /\ converted[k].kind = "def"
        /\ converted[k + 1].kind = "bpmn"}

\* every dependency of the definition is one of its nodes
WellFormed(def) ==
    \A k \in 1..Len(def.nodes) : def.nodes[k].dependsOn \subseteq ElementIdsOf(def)

\* the number of sequence flows of the process from one id to another
FlowCount(bpmn, sourceRef, targetRef) ==
    Cardinality({k \in 1..Len(bpmn.flows) :
                    bpmn.flows[k] = SequenceFlow(sourceRef, targetRef)})

ElementCount(bpmn, type) ==
    Cardinality({k \in 1..Len(bpmn.elements) : bpmn.elements[k].type = type})

EntryNodeIdsOf(def) ==
    IF def.hasEntryNodes THEN Range(def.entryNodes) \cap ElementIdsOf(def)
    ELSE Range(EntryIdsOf(def.nodes))

\* C28 as stated: the process exported from a well-formed N has one
\* StartEvent and one EndEvent, one flow u -> v per dependency edge, a flow
\* StartEvent -> n exactly for the entry nodes, one flow n -> EndEvent
\* exactly for the nodes without successors, and no other flow
C28_Original ==
    \A k \in BpmnExports :
        LET def == converted[k]
            bpmn == converted[k + 1]
            ids == ElementIdsOf(def)
        IN WellFormed(def) =>
           /\ ElementCount(bpmn, "bpmn:StartEvent") = 1
           /\ ElementCount(bpmn, "bpmn:EndEvent") = 1
           /\ \A i, j \in 1..Len(def.nodes) :
                  FlowCount(bpmn, def.nodes[i].id, def.nodes[j].id)
                      = IF def.nodes[i].id \in def.nodes[j].dependsOn
                        THEN 1 ELSE 0
           /\ \A i \in 1..Len(def.nodes) :
                  /\ FlowCount(bpmn, StartEventId, def.nodes[i].id)
                         = IF def.nodes[i].id \in EntryNodeIdsOf(def)
                           THEN 1 ELSE 0
                  /\ FlowCount(bpmn, def.nodes[i].id, EndEventId)
                         = IF NextNodeIndices(def, def.nodes[i].id) = {}
                           THEN 1 ELSE 0
           /\ \A f \in 1..Len(bpmn.flows) :
                  /\ bpmn.flows[f].sourceRef \in ids \cup {StartEventId}
                  /\ bpmn.flows[f].targetRef \in ids \cup {EndEventId}
                  /\ ~(/\ bpmn.flows[f].sourceRef = StartEventId
                       /\ bpmn.flows[f].targetRef = EndEventId)

\* the positions of the chain where a process was imported
BpmnImports ==
    {k \in 1..Len(converted) :
        /\ k + 1 <= Len(converted)
        /\ converted[k].kind = "bpmn"
        /\ converted[k + 1].kind = "def"}

\* C29 as stated: in the definition imported from a process, every id in
\* the dependsOn of a node is the id of a node of the definition
C29_Original ==
    \A k \in BpmnImports : WellFormed(converted[k + 1])

(* ------------------- buildLevels and the runner: claims --------------- *)
\* buildLevels returned the levels of the definition being run
LevelsBuilt == PastBuild /\ ~BuildFailed

\* the number of places a ctor holds in the levels
Occurrences(ls, c) ==
    Cardinality({<<k, i>> \in (1..Len(ls)) \X (1..MaxSteps + 1) :
                    i <= Len(ls[k]) /\ ls[k][i] = c})

\* C31: the levels buildLevels returns for a definition it accepts partition
\* the steps of the definition: every registered ctor is in exactly one
\* place of exactly one level, no level holds a ctor the definition does not
\* register, and no level is empty.
C31_LevelsPartition ==
    LevelsBuilt =>
        /\ \A c \in CtorsOf(runDef) : Occurrences(levels, c) = 1
        /\ LevelMembers(levels) \subseteq CtorsOf(runDef)
        /\ \A k \in 1..Len(levels) : levels[k] # <<>>
        /\ StepCount(levels) = Len(runDef)

\* two levels were built for three steps, two of them in one level
C31_Witness ==
    /\ LevelsBuilt /\ Len(runDef) = 3 /\ Len(levels) = 2
    /\ \E k \in 1..Len(levels) : Len(levels[k]) = 2

\* the latest level that holds a dependency of the step, 0 without
\* dependencies
LatestDependencyLevel(step) ==
    IF step.dependsOn = {} THEN 0
    ELSE CHOOSE m \in {LevelIndex(levels, d) : d \in step.dependsOn} :
             \A d \in step.dependsOn : LevelIndex(levels, d) <= m

\* C32: buildLevels places every step in the earliest level possible: a
\* step without dependencies in the first level, any other step in the
\* level right after the latest level that holds one of its dependencies.
C32_EarliestLevel ==
    LevelsBuilt =>
        \A i \in 1..Len(runDef) :
            LevelIndex(levels, runDef[i].ctor)
                = LatestDependencyLevel(runDef[i]) + 1

\* a step without dependencies shares the first level with the step that the
\* third step, in the second level, depends on
C32_Witness ==
    /\ LevelsBuilt /\ Len(runDef) = 3 /\ Len(levels) = 2
    /\ Len(levels[1]) = 2 /\ Len(levels[2]) = 1
    /\ \E i \in 1..Len(runDef) :
          /\ runDef[i].ctor = levels[2][1]
          /\ Cardinality(runDef[i].dependsOn) = 1

(* ===== StepRegistry by itself (StepRegistry.ts 35-105) ================ *)
\* the registry is followed for this many method calls
MaxCalls == 4

\* what is left alone by a method of the registry
outsideRegistry ==
    <<inputVars, hybridVars, target, stack, ret, attempts, runDef, hooksOn,
      pc, runVars, monitorVars, planDef, metaByNodeId, cpPc, longestPath,
      longestPathKeys, processed, queue, criticalPath, config, executionHint,
      plan, converted>>

\* a method call of the registry with what it did: it returned (resolve:
\* the constructor in "value") or it threw
RegistryCall(op, id, ctor, outcome, value) ==
    [op |-> op, id |-> id, ctor |-> ctor, outcome |-> outcome,
     value |-> value]

\* a register() without the has() test of line 36: Map.set replaces the
\* value of a key that is present and keeps the key's place
RegisterOverwrites(id, ctor) ==
    /\ Len(calls) < MaxCalls
    /\ registry' = IF IsRegisteredId(id)
                   THEN [i \in 1..Len(registry) |->
                            IF registry[i].id = id
                            THEN [id |-> id, ctor |-> ctor]
                            ELSE registry[i]]
                   ELSE Append(registry, [id |-> id, ctor |-> ctor])
    /\ calls' = Append(calls, RegistryCall("register", id, ctor, "returns", 0))
    /\ UNCHANGED outsideRegistry

\* lines 35-40: register(id, ctor) throws when map.has(id), else map.set
Register(id, ctor) ==
    /\ Len(calls) < MaxCalls
    /\ IF IsRegisteredId(id)
       THEN /\ registry' = registry
            /\ calls' = Append(calls,
                               RegistryCall("register", id, ctor, "throws", 0))
       ELSE /\ registry' = Append(registry, [id |-> id, ctor |-> ctor])
            /\ calls' = Append(calls,
                               RegistryCall("register", id, ctor, "returns", 0))
    /\ UNCHANGED outsideRegistry

\* lines 54-60: resolve(id) throws "Unknown stepRef" when map.get(id) is
\* undefined (a constructor is never falsy), else returns the constructor
ResolveCall(id) ==
    /\ Len(calls) < MaxCalls
    /\ calls' = Append(calls,
                       IF IsRegisteredId(id)
                       THEN RegistryCall("resolve", id, 0, "returns",
                                         Resolve(id))
                       ELSE RegistryCall("resolve", id, 0, "throws", 0))
    /\ UNCHANGED registry
    /\ UNCHANGED outsideRegistry

\* lines 84-86: clear() empties the map
Clear ==
    /\ Len(calls) < MaxCalls
    /\ registry' = <<>>
    /\ calls' = Append(calls, RegistryCall("clear", "none", 0, "returns", 0))
    /\ UNCHANGED outsideRegistry

\* new StepRegistry(): an empty map
RegistryInit ==
    /\ RunnerIdle
    /\ PlannerIdle

RegistryNext ==
    \/ \E id \in Names, ctor \in Ctors : Register(id, ctor)
    \/ \E id \in Names : ResolveCall(id)
    \/ Clear

RegistrySpec == RegistryInit /\ [][RegistryNext]_vars

\* the last clear() before call k, 0 when there is none
LastClearBefore(k) ==
    IF \E j \in 1..(k - 1) : calls[j].op = "clear"
    THEN CHOOSE j \in 1..(k - 1) :
            /\ calls[j].op = "clear"
            /\ \A i \in (j + 1)..(k - 1) : calls[i].op # "clear"
    ELSE 0

\* the register() calls of id that returned, after the last clear before k
RegisteredSince(id, k) ==
    {j \in (LastClearBefore(k) + 1)..(k - 1) :
        /\ calls[j].op = "register"
        /\ calls[j].id = id
        /\ calls[j].outcome = "returns"}

FirstOf(S) == CHOOSE j \in S : \A i \in S : j <= i

ResolvesFirstRegistered ==
    \A k \in 1..Len(calls) :
        calls[k].op = "resolve" =>
            IF RegisteredSince(calls[k].id, k) = {}
            THEN calls[k].outcome = "throws"
            ELSE /\ calls[k].outcome = "returns"
                 /\ calls[k].value =
                        calls[FirstOf(RegisteredSince(calls[k].id, k))].ctor

DuplicateRegisterKeepsBindings ==
    \A id \in Names :
        (/\ IsRegisteredId(id)
         /\ Len(calls') = Len(calls) + 1
         /\ calls'[Len(calls')].op = "register"
         /\ calls'[Len(calls')].id = id)
        => /\ calls'[Len(calls')].outcome = "throws"
           /\ registry' = registry

\* C34: a register() of a registered name throws and leaves every binding as
\* it was; a resolve() returns the constructor of the first register() of
\* the name that returned since the last clear(), and throws when there is
\* none
C34_WriteOnce ==
    /\ []ResolvesFirstRegistered
    /\ [][DuplicateRegisterKeepsBindings]_vars

\* a refused register() of another constructor, then a resolve() of the name
C34_Witness ==
    \E k \in 1..Len(calls), j \in 1..Len(calls) :
        /\ j < k
        /\ calls[j].op = "register" /\ calls[j].outcome = "throws"
        /\ calls[k].op = "resolve" /\ calls[k].id = calls[j].id
        /\ calls[k].outcome = "returns" /\ calls[k].value # calls[j].ctor

(* ===== runPipeline with the caller's hooks (core index.ts 126-197) ==== *)
\* a hook call settles by returning or by throwing; a step's execute
\* returns, returns after setting ctx.stopPipeline, or throws
HookOutcomes == {"returns", "throws"}
ExecuteOutcomes == {"ok", "stop", "raise"}

\* what runPipeline and the hooks leave alone
outsidePipeline ==
    <<inputVars, hybridVars, target, stack, attempts, runDef, hooksOn,
      monitorVars, cleanStop, stoppers, raised, hookThrew, planDef,
      metaByNodeId, cpPc, longestPath, longestPathKeys, processed, queue,
      criticalPath, config, executionHint, plan, registry, converted>>

\* runPipeline(definition, { source, target, hooks }) is being run
PipelineActive == Top = "pipeline.run"

\* one call of a hook: its name, the level it was called in, the step it was
\* called for (0 for a level hook) and how it settled
HookCall(hook, level, step, outcome) ==
    [hook |-> hook, level |-> level, step |-> step, outcome |-> outcome]

\* lines 169-175: fresh context and arrays, then buildLevels(definition),
\* whose error is not caught; an empty definition has no level to run
PipelineStart ==
    /\ PipelineActive /\ pc = "start"
    /\ LET built == buildLevels(runDef)
       IN /\ levels' = built.levels
          /\ IF built.error # "none"
             THEN pc' = "threw" /\ ret' = ErrorRet(built.error)
                  /\ levelIdx' = 0
             ELSE /\ ret' = NoRet
                  /\ IF built.levels = <<>>
                     THEN pc' = "finish" /\ levelIdx' = 0
                     ELSE pc' = "levelStart" /\ levelIdx' = 1
    /\ launchIdx' = 0
    /\ stepState' = IdleSteps
    /\ ctx' = FreshCtx
    /\ executedSteps' = <<>>
    /\ errors' = <<>>
    /\ completedLevels' = <<>>
    /\ UNCHANGED <<calls, outsidePipeline>>

\* runLevel line 133: await hooks.onLevelStart(level, ctx), outside any try
LevelStartHook(outcome) ==
    /\ PipelineActive /\ pc = "levelStart"
    /\ calls' = Append(calls, HookCall("onLevelStart", CurrentLevel, 0,
                                       outcome))
    /\ IF outcome = "throws"
       THEN pc' = "threw" /\ ret' = ErrorRet("HookError") /\ launchIdx' = 0
       ELSE pc' = "launch" /\ launchIdx' = 1 /\ ret' = ret
    /\ UNCHANGED <<levels, levelIdx, stepState, ctx, executedSteps, errors,
                   completedLevels, outsidePipeline>>

\* lines 135-137: the synchronous part of one callback of level.map, in the
\* order of the level: new ctor(), then hooks.onStepStart(ctor, ctx) outside
\* the try; when the hook throws the callback's promise rejects
StepStartHook(outcome) ==
    /\ PipelineActive /\ pc = "launch"
    /\ LET ctor == CurrentLevel[launchIdx]
       IN /\ calls' = Append(calls, HookCall("onStepStart", CurrentLevel,
                                             ctor, outcome))
          /\ stepState' = [stepState EXCEPT
                             ![ctor] = IF outcome = "throws" THEN "hookThrew"
                                       ELSE "started"]
    /\ IF launchIdx = Len(CurrentLevel)
       THEN pc' = "await" /\ launchIdx' = launchIdx
       ELSE pc' = pc /\ launchIdx' = launchIdx + 1
    /\ UNCHANGED <<ret, levels, levelIdx, ctx, executedSteps, errors,
                   completedLevels, outsidePipeline>>

\* a callback of level.map that is pending goes on whenever the event loop
\* gets to it, which is not inside the synchronous level.map
CallbacksGoOn == PipelineActive /\ pc # "launch"

\* the level a callback was started in: the `level` of its runLevel call
LevelOf(ctor) ==
    levels[CHOOSE i \in 1..Len(levels) :
              \E j \in 1..Len(levels[i]) : levels[i][j] = ctor]

\* lines 139-141 and 144-146: await step.execute(ctx) settles; after a
\* return the step is pushed to executedSteps, a throw is caught: ctx.error
\* and errors.push
Execute(ctor, outcome) ==
    /\ CallbacksGoOn
    /\ stepState[ctor] = "started"
    /\ ctx' = [ctx EXCEPT
                 !.stopPipeline = ctx.stopPipeline \/ outcome = "stop",
                 !.error = IF outcome = "raise" THEN ctor ELSE ctx.error]
    /\ executedSteps' = ExecutedAfter(ctor, outcome = "raise")
    /\ errors' = IF outcome = "raise" THEN Append(errors, ctor) ELSE errors
    /\ stepState' = [stepState EXCEPT
                       ![ctor] = IF outcome = "raise" THEN "caught"
                                 ELSE "executed"]
    /\ UNCHANGED <<ret, pc, levels, levelIdx, launchIdx, completedLevels,
                   calls, outsidePipeline>>

\* line 142, mutated: onStepSuccess is called after the try block, so its
\* error rejects the callback
AfterSuccessHookOutside(ctor, outcome) ==
    /\ errors' = errors
    /\ ctx' = ctx
    /\ stepState' = [stepState EXCEPT
                       ![ctor] = IF outcome = "throws" THEN "hookThrew"
                                 ELSE "fulfilled"]

\* lines 142-146: onStepSuccess is awaited inside the try block, so what it
\* throws is caught like an error of execute: ctx.error, errors.push
AfterSuccessHook(ctor, outcome) ==
    /\ errors' = IF outcome = "throws" THEN Append(errors, ctor) ELSE errors
    /\ ctx' = [ctx EXCEPT
                 !.error = IF outcome = "throws" THEN ctor ELSE ctx.error]
    /\ stepState' = [stepState EXCEPT
                       ![ctor] = IF outcome = "throws" THEN "caught"
                                 ELSE "fulfilled"]

\* lines 142-143: await hooks.onStepSuccess(ctor, ctx), then the callback
\* returns { status: "fulfilled" }
StepSuccessHook(ctor, outcome) ==
    /\ CallbacksGoOn
    /\ stepState[ctor] = "executed"
    /\ calls' = Append(calls, HookCall("onStepSuccess", LevelOf(ctor), ctor,
                                       outcome))
    /\ AfterSuccessHook(ctor, outcome)
    /\ UNCHANGED <<ret, pc, levels, levelIdx, launchIdx, executedSteps,
                   completedLevels, outsidePipeline>>

\* lines 147-148: await hooks.onStepError(ctor, error, ctx) inside the catch
\* block, then the callback returns { status: "rejected" }; when the hook
\* throws the callback's promise rejects
StepErrorHook(ctor, outcome) ==
    /\ CallbacksGoOn
    /\ stepState[ctor] = "caught"
    /\ calls' = Append(calls, HookCall("onStepError", LevelOf(ctor), ctor,
                                       outcome))
    /\ stepState' = [stepState EXCEPT
                       ![ctor] = IF outcome = "throws" THEN "hookThrew"
                                 ELSE "rejected"]
    /\ UNCHANGED <<ret, pc, levels, levelIdx, launchIdx, ctx, executedSteps,
                   errors, completedLevels, outsidePipeline>>

\* line 152: Promise.all rejects with the error of a callback whose promise
\* rejected; nothing in runLevel or runPipeline catches it
AllRejects ==
    /\ PipelineActive /\ pc = "await"
    /\ \E i \in 1..Len(CurrentLevel) :
          stepState[CurrentLevel[i]] = "hookThrew"
    /\ pc' = "threw"
    /\ ret' = ErrorRet("HookError")
    /\ UNCHANGED <<levels, levelIdx, launchIdx, stepState, ctx,
                   executedSteps, errors, completedLevels, calls,
                   outsidePipeline>>

\* runLevel lines 152-156 and runPipeline lines 177-184: every callback has
\* returned, hooks.onLevelComplete(level, ctx) is awaited outside any try,
\* the level is pushed to completedLevels and the loop breaks or advances
LevelCompleteHook(outcome) ==
    /\ PipelineActive /\ pc = "await"
    /\ LevelSettled
    /\ calls' = Append(calls, HookCall("onLevelComplete", CurrentLevel, 0,
                                       outcome))
    /\ IF outcome = "throws"
       THEN /\ pc' = "threw" /\ ret' = ErrorRet("HookError")
            /\ UNCHANGED <<levelIdx, completedLevels>>
       ELSE /\ completedLevels' = CompletedAfter
            /\ ret' = ret
            /\ IF Breaks \/ levelIdx = Len(levels)
               THEN pc' = "finish" /\ levelIdx' = levelIdx
               ELSE pc' = "levelStart" /\ levelIdx' = levelIdx + 1
    /\ UNCHANGED <<levels, launchIdx, stepState, ctx, executedSteps, errors,
                   outsidePipeline>>

\* lines 186-196: the result is built, hooks.onPipelineComplete(result) is
\* awaited outside any try, and the result is returned
PipelineCompleteHook(outcome) ==
    /\ PipelineActive /\ pc = "finish"
    /\ calls' = Append(calls, HookCall("onPipelineComplete", <<>>, 0,
                                       outcome))
    /\ IF outcome = "throws"
       THEN pc' = "threw" /\ ret' = ErrorRet("HookError")
       ELSE /\ pc' = "done"
            /\ ret' = ResultRet(Status, ctx, errors, executedSteps,
                                completedLevels)
    /\ UNCHANGED <<levels, levelIdx, launchIdx, stepState, ctx,
                   executedSteps, errors, completedLevels, outsidePipeline>>

\* runPipeline is called with a definition and hooks of the caller
HooksInit ==
    /\ PlannerIdle
    /\ definition \in Definitions
    /\ executionMode = "in-memory"
    /\ isFargate = "unread"
    /\ timeoutMs \in TimeoutChoices
    /\ stack = <<"pipeline.run">>
    /\ ret = NoRet
    /\ attempts = <<>>
    /\ runDef = definition
    /\ hooksOn = FALSE
    /\ pc = "start"
    /\ levels = <<>>
    /\ levelIdx = 0
    /\ launchIdx = 0
    /\ stepState = IdleSteps
    /\ ctx = FreshCtx
    /\ executedSteps = <<>>
    /\ errors = <<>>
    /\ completedLevels = <<>>
    /\ elapsed = 0
    /\ warningEmitted = FALSE
    /\ cleanStop = FALSE
    /\ raised = {}
    /\ stoppers = {}
    /\ hookThrew = FALSE
    /\ prefixResult = NoRet
    /\ suffixSource = "none"
    /\ target = {}
    /\ warnings = 0
    /\ lastCheckAt = -1

HooksNext ==
    \/ PipelineStart
    \/ \E outcome \in HookOutcomes : LevelStartHook(outcome)
    \/ \E outcome \in HookOutcomes : StepStartHook(outcome)
    \/ \E ctor \in Ctors, outcome \in ExecuteOutcomes : Execute(ctor, outcome)
    \/ \E ctor \in Ctors, outcome \in HookOutcomes :
          StepSuccessHook(ctor, outcome)
    \/ \E ctor \in Ctors, outcome \in HookOutcomes :
          StepErrorHook(ctor, outcome)
    \/ AllRejects
    \/ \E outcome \in HookOutcomes : LevelCompleteHook(outcome)
    \/ \E outcome \in HookOutcomes : PipelineCompleteHook(outcome)

HooksSpec == HooksInit /\ [][HooksNext]_vars

\* every execute and every hook call that is pending settles, and the
\* continuations of runLevel and runPipeline are run by the event loop
HooksLiveSpec == HooksSpec /\ WF_vars(HooksNext)

\* the calls of a hook made with a level as its argument
CallsOf(hook, level) ==
    {k \in 1..Len(calls) : calls[k].hook = hook /\ calls[k].level = level}

LevelHooks == {"onLevelStart", "onLevelComplete"}
StepHooks == {"onStepStart", "onStepSuccess", "onStepError"}

\* the step hooks called in a level
StepCallsIn(level) ==
    {k \in 1..Len(calls) :
        calls[k].hook \in StepHooks /\ calls[k].level = level}

\* C33: when runPipeline returns a result, onLevelStart and onLevelComplete
\* have each been called exactly once for every level of completedLevels
\* and for no other level, in the order of the levels, onLevelStart of a
\* level before every step hook of the level, onLevelComplete after all of
\* them and before onLevelStart of the next level.
C33_LevelHooksOncePerCompletedLevel ==
    pc = "done" =>
        /\ \A i \in 1..Len(ret.completedLevels) :
              LET level == ret.completedLevels[i]
              IN /\ Cardinality(CallsOf("onLevelStart", level)) = 1
                 /\ Cardinality(CallsOf("onLevelComplete", level)) = 1
                 /\ \A s \in CallsOf("onLevelStart", level),
                      e \in CallsOf("onLevelComplete", level) :
                       /\ s < e
                       /\ \A k \in StepCallsIn(level) : s < k /\ k < e
                       /\ i < Len(ret.completedLevels) =>
                             \A n \in CallsOf("onLevelStart",
                                              ret.completedLevels[i + 1]) :
                                 e < n
        /\ \A k \in 1..Len(calls) :
              calls[k].hook \in LevelHooks =>
                  \E i \in 1..Len(ret.completedLevels) :
                      calls[k].level = ret.completedLevels[i]

\* a result of two completed levels, the second one failed, with step hooks
\* called in both
C33_Witness ==
    /\ pc = "done"
    /\ Len(ret.completedLevels) = 2
    /\ ret.status = "error"
    /\ StepCallsIn(ret.completedLevels[1]) # {}
    /\ \E k \in StepCallsIn(ret.completedLevels[2]) :
          calls[k].hook = "onStepError"
    /\ Len(levels) > 2

\* C39 as claimed: in a result no step is both in executedSteps and in
\* errors and no step is twice in either; a step whose execute returned is
\* not reported as failed.
C39_Original ==
    pc = "done" =>
        /\ \A i \in 1..Len(ret.executedSteps), j \in 1..Len(ret.errors) :
              ret.executedSteps[i] # ret.errors[j]
        /\ \A i, j \in 1..Len(ret.executedSteps) :
              i # j => ret.executedSteps[i] # ret.executedSteps[j]
        /\ \A i, j \in 1..Len(ret.errors) :
              i # j => ret.errors[i] # ret.errors[j]

\* runPipeline has been called with a definition that buildLevels accepts
AcceptedCall == pc = "start" /\ buildLevels(runDef).error = "none"

\* the calls of the hooks that runLevel and runPipeline await outside the
\* try block, which threw
EscapingThrows ==
    {k \in 1..Len(calls) :
        /\ calls[k].outcome = "throws"
        /\ calls[k].hook # "onStepSuccess"}

LevelsStarted ==
    Cardinality({k \in 1..Len(calls) : calls[k].hook = "onLevelStart"})

\* C40 as claimed: when every execute and every hook call settles,
\* runPipeline returns a result for every accepted definition.
C40_Original == AcceptedCall ~> pc = "done"

\* C40: when every execute and every hook call settles, runPipeline settles
\* for every accepted definition: it returns a result when no hook called
\* outside the try block threw, and rejects with the error of such a hook
\* otherwise; it starts no more levels than the definition has steps.
C40_RunSettles ==
    /\ AcceptedCall ~> (pc = "done" /\ EscapingThrows = {})
                       \/ (pc = "threw" /\ EscapingThrows # {})
    /\ [](pc = "done" => EscapingThrows = {})
    /\ []((pc = "threw" /\ ~BuildFailed) => EscapingThrows # {})
    /\ [](LevelsStarted <= Len(runDef))

\* a result returned after as many levels were started as the definition
\* has steps, the last of them failed by an onStepSuccess hook that threw
C40_Witness ==
    /\ pc = "done"
    /\ Len(runDef) = MaxSteps
    /\ LevelsStarted = Len(runDef)
    /\ \E k \in 1..Len(calls) :
          calls[k].hook = "onStepSuccess" /\ calls[k].outcome = "throws"

\* the steps of the run that just ended whose callbacks are still pending:
\* past onStepStart with execute not yet called, or inside execute
InFlight == {c \in Ctors : stepState[c] \in {"started", "running"}}

\* C35 as claimed: in auto mode, when the fallback chain starts the next
\* adapter after a failure of the previous one, no step started by the
\* previous adapter is still executing or has its write to target ahead.
C35_Original ==
    (executionMode = "auto" /\ Top \in {"hybrid.call", "fargate.call"})
        => InFlight = {}

\* execute of a step is entered in this step of the run
ExecuteInvoked(c) == stepState[c] = "started" /\ stepState'[c] = "running"

\* C36 as claimed: in a run of the fallback chain no step's execute is
\* invoked after an earlier adapter of the chain has invoked it against the
\* same target.
C36_Original ==
    [][executionMode = "auto" =>
          \A c \in Ctors : ExecuteInvoked(c) => c \notin target]_vars

\* C37 as claimed: in a hybrid plan of a definition that is a DAG no node
\* among lambdaNodes depends on a node among stepFunctionsNodes.
C37_Original ==
    HybridPlanned /\ PlanAcyclic =>
        \A id \in InlineSet : DependsOnOf(id) \cap OrchestratedSet = {}

\* the hybrid adapter has split the definition and is running the prefix
PrefixRuns == \E i \in 1..Len(stack) : stack[i] = "hybrid.prefix"

\* C38 as claimed: the prefix that splitPipeline returns for a definition of
\* two or more steps that buildLevels accepts holds no step that depends on
\* a step of the suffix, and is accepted by buildLevels.
C38_Original ==
    (PrefixRuns /\ buildLevels(definition).error = "none") =>
        /\ runDef = PrefixOf(definition)
        /\ \A i \in 1..Len(runDef) :
              runDef[i].dependsOn \cap CtorsOf(SuffixOf(definition)) = {}
        /\ buildLevels(runDef).error = "none"

====
